---------------------------- MODULE Spec2Model ----------------------------
(***************************************************************************)
(* Voice Writing: recorder, transcription client, formatting client and    *)
(* the session orchestrator of the plugin, as one state machine.           *)
(*                                                                         *)
(* Text is modelled as sequences: an API key is a sequence of one-character*)
(* strings (so trim, startsWith, length and the whitespace test are        *)
(* computed), inserted content is a sequence of tokens (so the composition *)
(* of embed line, label and text is computed).                             *)
(***************************************************************************)
EXTENDS Integers, Sequences, FiniteSets, TLC

VARIABLES
    tcall,          \* a TranscriptionService.transcribe call made directly
    fcall,          \* a FormattingService.formatTranscription call made directly
    probes,         \* the TranscriptionService.testApiKey calls made so far
    settings,       \* VoiceWritingPlugin.settings
    dataJson,       \* the data of the plugin on disk (loadData / saveData)
    mediaRecorder,  \* MicrophoneRecorder.mediaRecorder: 0 (null) or a recorder id
    audioChunks,    \* MicrophoneRecorder.audioChunks: the recorder each chunk is from
    recorders,      \* the MediaRecorder objects constructed so far
    streams,        \* the microphone streams acquired so far
    starting,       \* recorder.startRecording calls awaiting getUserMedia
    starts,         \* startRecording invocations so far
    recordingModal, \* VoiceWritingPlugin.recordingModal is set
    statusBar,      \* text of the status bar item
    ribbonRecording,\* the ribbon icon carries the recording class
    activeView,     \* the workspace has an active Markdown view
    pipes,          \* the stopRecording / transcribeFile invocations
    vault,          \* folders and files of the vault
    last            \* what the step just taken completed: a startRecording
                    \* call or a pipeline, with all it did

svcVars  == <<tcall, fcall, probes>>
recVars  == <<mediaRecorder, audioChunks, recorders, streams, starting, starts>>
uiVars   == <<recordingModal, statusBar, ribbonRecording>>
pluginVars ==
    <<settings, dataJson, mediaRecorder, audioChunks, recorders, streams,
      starting, starts, recordingModal, statusBar, ribbonRecording, activeView, pipes,
      vault, last>>
vars     == <<tcall, fcall, probes, settings, dataJson, mediaRecorder, audioChunks, recorders,
              streams, starting, starts, recordingModal, statusBar,
              ribbonRecording, activeView, pipes, vault, last>>

(***************************************************************************)
(* Bounds of the model                                                     *)
(***************************************************************************)
MaxPad == 1         \* whitespace characters put before / after a key
MaxStarts == 2      \* startRecording invocations in one behaviour
MaxPipes == 2       \* stopRecording / transcribeFile pipelines in one behaviour
MaxWork == 3        \* recordings started plus pipelines in one behaviour
MaxProbes == 2      \* testApiKey calls in one behaviour
MaxUploads == 1     \* uploads beside the settings handlers in one behaviour
MaxTests == 1       \* presses of a Test button beside a pipeline

(***************************************************************************)
(* Program constants                                                       *)
(***************************************************************************)
MIN_KEY_LENGTH == 20        \* trimmedKey.length > 20
Providers == {"openai", "groq"}
MODELS == [openai |-> "whisper-1", groq |-> "whisper-large-v3"]
API_ENDPOINTS ==
    [openai |-> "https://api.openai.com/v1/audio/transcriptions",
     groq   |-> "https://api.groq.com/openai/v1/audio/transcriptions"]
API_TEST_ENDPOINTS ==
    [openai |-> "https://api.openai.com/v1/models",
     groq   |-> "https://api.groq.com/openai/v1/models"]
AUDIO_MIME_TYPE == "audio/webm"
RECORDING_NAME == "recording.webm"
SUPPORTED_LANGUAGES == {"auto", "en", "ko", "ja", "zh", "es", "fr", "de"}

(***************************************************************************)
(* Strings as character sequences                                          *)
(***************************************************************************)
Whitespace == {" ", "\t"}
SK == <<"s", "k", "-">>
GSK == <<"g", "s", "k", "_">>

Rep(c, n) == [i \in 1..n |-> c]

RECURSIVE trimStart(_)
trimStart(s) ==
    IF s # <<>> /\ Head(s) \in Whitespace THEN trimStart(Tail(s)) ELSE s

RECURSIVE trimEnd(_)
trimEnd(s) ==
    IF s # <<>> /\ s[Len(s)] \in Whitespace
    THEN trimEnd(SubSeq(s, 1, Len(s) - 1)) ELSE s

trim(s) == trimEnd(trimStart(s))

startsWith(s, p) == Len(s) >= Len(p) /\ SubSeq(s, 1, Len(p)) = p

hasWhitespace(s) == \E i \in 1..Len(s) : s[i] \in Whitespace

(***************************************************************************)
(* The keys tried: optional padding, an optional vendor prefix, a body of  *)
(* letters whose length puts the trimmed key on either side of the minimum *)
(* length, optionally with one whitespace character inside.                *)
(***************************************************************************)
Body(n, inner) ==
    [i \in 1..n |-> IF inner /\ i = 2 THEN " " ELSE "a"]

BodyLengths == {0, MIN_KEY_LENGTH - 3, MIN_KEY_LENGTH - 2, MIN_KEY_LENGTH + 1}

Keys ==
    { Rep(" ", lead) \o pre \o Body(n, inner) \o Rep(" ", trail) :
        lead \in 0..MaxPad, trail \in 0..MaxPad, pre \in {<<>>, SK, GSK},
        n \in BodyLengths, inner \in BOOLEAN }

(***************************************************************************)
(* TranscriptionService                                                    *)
(***************************************************************************)
NoOutcome == [kind |-> "pending", text |-> "", message |-> "", status |-> 0]
Success(text) == [kind |-> "ok", text |-> text, message |-> "", status |-> 0]
Failure(message, status) ==
    [kind |-> "error", text |-> "", message |-> message, status |-> status]

Statuses == {200, 401, 429, 400, 500}
Transcripts == {"hello world", "second take"}
\* A response of the transcription endpoint: 200 carries {text}; an error
\* status carries a structured {error:{message}} body or an opaque one.
Responses ==
    { [status |-> 200, text |-> t, body |-> "text"] : t \in Transcripts }
    \cup { [status |-> s, text |-> "", body |-> b] :
             s \in Statuses \ {200}, b \in {"structured", "opaque"} }

NoResponse == [status |-> 0, text |-> "", body |-> ""]

isValidApiKeyFormatGroqPrefix(apiKey, provider) ==
    LET trimmedKey == trim(apiKey) IN
    IF provider = "openai"
    THEN startsWith(trimmedKey, SK) /\ Len(trimmedKey) > MIN_KEY_LENGTH
    ELSE IF provider = "groq"
    THEN startsWith(trimmedKey, GSK) /\ Len(trimmedKey) > MIN_KEY_LENGTH
    ELSE Len(trimmedKey) > 10

isValidApiKeyFormat(apiKey, provider) ==
    LET trimmedKey == trim(apiKey) IN
    IF provider = "openai"
    THEN startsWith(trimmedKey, SK) /\ Len(trimmedKey) > MIN_KEY_LENGTH
    ELSE IF provider = "groq"
    THEN Len(trimmedKey) > MIN_KEY_LENGTH /\ ~hasWhitespace(trimmedKey)
    ELSE Len(trimmedKey) > 10

createFormDataAlwaysLanguage(fileName, language, provider) ==
    << [name |-> "file", value |-> fileName, contentType |-> AUDIO_MIME_TYPE],
       [name |-> "model", value |-> MODELS[provider], contentType |-> ""],
       [name |-> "language", value |-> language, contentType |-> ""] >>

createFormDataDiarize(fileName, language, provider) ==
    << [name |-> "file", value |-> fileName, contentType |-> AUDIO_MIME_TYPE],
       [name |-> "model", value |-> MODELS[provider], contentType |-> ""] >>
    \o (IF language # "" /\ language # "auto"
        THEN << [name |-> "language", value |-> language, contentType |-> ""] >>
        ELSE << >>)
    \o (IF settings.enableSpeakerDiarization
        THEN << [name |-> "diarize", value |-> "true", contentType |-> ""] >>
        ELSE << >>)

\* The parts of the multipart body, in the order they are pushed.
createFormData(fileName, language, provider) ==
    << [name |-> "file", value |-> fileName, contentType |-> AUDIO_MIME_TYPE],
       [name |-> "model", value |-> MODELS[provider], contentType |-> ""] >>
    \o (IF language # "" /\ language # "auto"
        THEN << [name |-> "language", value |-> language, contentType |-> ""] >>
        ELSE << >>)

NoCall ==
    [pc |-> "idle", apiKey |-> <<>>, language |-> "auto", provider |-> "openai",
     timerFired |-> FALSE, responded |-> FALSE, first |-> "none",
     response |-> NoResponse, late |-> NoResponse,
     outcome |-> NoOutcome, notices |-> <<>>, requests |-> <<>>]

transcribeNoKeyCheck(apiKey, language, provider) ==
    [NoCall EXCEPT !.pc = "reading", !.apiKey = apiKey,
                   !.language = language, !.provider = provider]

transcribeShapeFirst(apiKey, language, provider) ==
    LET call == [NoCall EXCEPT !.apiKey = apiKey, !.language = language,
                               !.provider = provider] IN
    IF ~isValidApiKeyFormat(apiKey, provider)
    THEN [call EXCEPT !.pc = "done", !.notices = <<"API_KEY_INVALID_FORMAT">>,
                      !.outcome = Failure("Invalid API key format", 0)]
    ELSE [call EXCEPT !.pc = "reading"]

\* transcribe up to its first await: the two key checks.
transcribe(apiKey, language, provider) ==
    LET call == [NoCall EXCEPT !.apiKey = apiKey, !.language = language,
                               !.provider = provider] IN
    IF apiKey = <<>>
    THEN [call EXCEPT !.pc = "done", !.notices = <<"API_KEY_MISSING">>,
                      !.outcome = Failure("API Key missing", 0)]
    ELSE IF ~isValidApiKeyFormat(apiKey, provider)
    THEN [call EXCEPT !.pc = "done", !.notices = <<"API_KEY_INVALID_FORMAT">>,
                      !.outcome = Failure("Invalid API key format", 0)]
    ELSE [call EXCEPT !.pc = "reading"]

\* transcribe after audioBlob.arrayBuffer(): the body is built, the request
\* is issued and the timer is armed.
transcribeSend(call) ==
    [call EXCEPT
        !.pc = "racing",
        !.requests = @ \o << [kind |-> "transcribe",
                              url |-> API_ENDPOINTS[call.provider],
                              method |-> "POST",
                              bearer |-> call.apiKey,
                              parts |-> createFormData(RECORDING_NAME,
                                            call.language, call.provider)] >>]

\* parseErrorResponse: the message of a structured {error:{message}} body,
\* or a message made of the status.  transcribe does not call it.
BODY_MESSAGE == "<json.error.message>"
parseErrorResponse(response) ==
    IF response.body = "structured"
    THEN [status |-> response.status, message |-> BODY_MESSAGE]
    ELSE [status |-> response.status, message |-> "HTTP Error"]

classifyAllGeneric(response) ==
    IF response.status # 200
    THEN Failure("Transcription failed", response.status)
    ELSE Success(response.text)

\* What transcribe returns or throws for a response that won the race.
classify(response) ==
    IF response.status # 200
    THEN IF response.status = 401 THEN Failure("API_UNAUTHORIZED", 401)
         ELSE IF response.status = 429 THEN Failure("API_QUOTA_EXCEEDED", 429)
         ELSE Failure("Transcription failed", response.status)
    ELSE Success(response.text)

raceResponseLateWins(call, response) ==
    IF call.pc = "racing"
    THEN [call EXCEPT
            !.responded = TRUE, !.pc = "done", !.first = "response",
            !.response = response, !.outcome = classify(response),
            !.notices = IF response.status # 200
                        THEN @ \o <<"TRANSCRIPTION_FAILED">> ELSE @]
    ELSE [call EXCEPT !.responded = TRUE, !.late = response,
                      !.outcome = classify(response)]

\* requestUrl resolves. Promise.race takes it only when nothing settled
\* yet; a response that lost the race is dropped (late records it).
raceResponse(call, response) ==
    IF call.pc = "racing"
    THEN [call EXCEPT
            !.responded = TRUE, !.pc = "done", !.first = "response",
            !.response = response, !.outcome = classify(response),
            !.notices = IF response.status # 200
                        THEN @ \o <<"TRANSCRIPTION_FAILED">> ELSE @]
    ELSE [call EXCEPT !.responded = TRUE, !.late = response]

raceRejectRetries(call) ==
    IF call.pc = "racing" /\ Len(call.requests) < 2
    THEN [call EXCEPT !.requests = @ \o <<@[1]>>]
    ELSE IF call.pc = "racing"
    THEN [call EXCEPT
            !.responded = TRUE, !.pc = "done", !.first = "reject",
            !.outcome = Failure("network error", 0),
            !.notices = @ \o <<"TRANSCRIPTION_FAILED">>]
    ELSE [call EXCEPT !.responded = TRUE]

\* requestUrl rejects (network error).
raceReject(call) ==
    IF call.pc = "racing"
    THEN [call EXCEPT
            !.responded = TRUE, !.pc = "done", !.first = "reject",
            !.outcome = Failure("network error", 0),
            !.notices = @ \o <<"TRANSCRIPTION_FAILED">>]
    ELSE [call EXCEPT !.responded = TRUE]

raceTimeoutLateNotice(call) ==
    IF call.pc = "racing"
    THEN [call EXCEPT
            !.timerFired = TRUE, !.pc = "done", !.first = "timer",
            !.outcome = Failure("Transcription timeout", 0),
            !.notices = @ \o <<"TRANSCRIPTION_TIMEOUT">>]
    ELSE [call EXCEPT !.timerFired = TRUE,
                      !.notices = @ \o <<"TRANSCRIPTION_TIMEOUT">>]

\* The setTimeout callback rejects with TIMEOUT.
raceTimeout(call) ==
    IF call.pc = "racing"
    THEN [call EXCEPT
            !.timerFired = TRUE, !.pc = "done", !.first = "timer",
            !.outcome = Failure("Transcription timeout", 0),
            !.notices = @ \o <<"TRANSCRIPTION_TIMEOUT">>]
    ELSE [call EXCEPT !.timerFired = TRUE]

(***************************************************************************)
(* TranscriptionService.testApiKey                                         *)
(***************************************************************************)
ApiTestResult(success, message) == [success |-> success, message |-> message]
NoResult == [success |-> FALSE, message |-> ""]
TestStatuses == {200, 401, 429, 500}

NoProbe ==
    [pc |-> "idle", apiKey |-> <<>>, provider |-> "openai", answer |-> "",
     result |-> NoResult, requests |-> <<>>]

testApiKeyNoEmptyCheck(apiKey, serviceProvider) ==
    [NoProbe EXCEPT
        !.pc = "requesting", !.apiKey = apiKey, !.provider = serviceProvider,
        !.requests = << [kind |-> "test",
                         url |-> API_TEST_ENDPOINTS[serviceProvider],
                         method |-> "GET", bearer |-> trim(apiKey)] >>]

\* testApiKey up to await requestUrl(params): an empty or blank key is
\* answered at once, any other is sent trimmed to the models endpoint.
testApiKey(apiKey, serviceProvider) ==
    IF apiKey = <<>> \/ Len(trim(apiKey)) = 0
    THEN [NoProbe EXCEPT
            !.pc = "done", !.apiKey = apiKey, !.provider = serviceProvider,
            !.result = ApiTestResult(FALSE, "INVALID_KEY")]
    ELSE [NoProbe EXCEPT
            !.pc = "requesting", !.apiKey = apiKey,
            !.provider = serviceProvider,
            !.requests = << [kind |-> "test",
                             url |-> API_TEST_ENDPOINTS[serviceProvider],
                             method |-> "GET", bearer |-> trim(apiKey)] >>]

testClassifyUnauthorizedUnknown(status) ==
    IF status = 200 THEN ApiTestResult(TRUE, "API_KEY_VALID")
    ELSE IF status = 429 THEN ApiTestResult(FALSE, "QUOTA_EXCEEDED")
    ELSE ApiTestResult(FALSE, "UNKNOWN_ERROR")

\* The result testApiKey returns for the status of the response.
testClassify(status) ==
    IF status = 200 THEN ApiTestResult(TRUE, "API_KEY_VALID")
    ELSE IF status = 401 THEN ApiTestResult(FALSE, "INVALID_KEY")
    ELSE IF status = 429 THEN ApiTestResult(FALSE, "QUOTA_EXCEEDED")
    ELSE ApiTestResult(FALSE, "UNKNOWN_ERROR")

\* requestUrl resolved (throw: false, so for every status).
\* A testApiKey that shares the request slot of transcribe: while a
\* transcription is under way its answer is not read.
testResponseSharesCall(call, status) ==
    [call EXCEPT !.pc = "done", !.answer = ToString(status),
                 !.result = IF tcall.pc = "idle" THEN testClassify(status)
                            ELSE ApiTestResult(FALSE, "UNKNOWN_ERROR")]

testResponse(call, status) ==
    [call EXCEPT !.pc = "done", !.answer = ToString(status),
                 !.result = testClassify(status)]

\* requestUrl rejected: the catch block.
testReject(call) ==
    [call EXCEPT !.pc = "done", !.answer = "network",
                 !.result = ApiTestResult(FALSE, "NETWORK_ERROR")]

(***************************************************************************)
(* FormattingService                                                       *)
(***************************************************************************)
Null == "<null>"            \* null / undefined where a string is expected
Undefined == "undefined"    \* what an absent property reads as
Falsy(v) == v \in {Null, ""}

CHAT_ENDPOINTS ==
    [openai |-> "https://api.openai.com/v1/chat/completions",
     groq   |-> "https://api.groq.com/openai/v1/chat/completions"]
CHAT_MODELS == [openai |-> "gpt-4o-mini", groq |-> "llama-3.1-8b-instant"]

\* The property chain data.choices[0].message.content.
ContentPath == <<"choices", "0", "message", "content">>
ChatPath(k) == SubSeq(ContentPath, 1, k)

\* A response of the chat endpoint. The body is the set of property paths
\* it holds (a prefix of the chain), or is not JSON at all.
ChatStatuses == {200, 204, 500}
FormattedTexts == {"# Notes"}
ChatResponses ==
    { [status |-> s, json |-> TRUE, paths |-> {ChatPath(k) : k \in 1..d},
       content |-> IF d = Len(ContentPath) THEN f ELSE ""] :
         s \in ChatStatuses, d \in 0..Len(ContentPath), f \in FormattedTexts }
    \cup { [status |-> s, json |-> FALSE, paths |-> {}, content |-> ""] :
             s \in ChatStatuses }

NoChat == [status |-> 0, json |-> FALSE, paths |-> {}, content |-> ""]

Returned(text, success) == [kind |-> "returned", text |-> text, success |-> success]
Threw == [kind |-> "threw", text |-> "", success |-> FALSE]
Pending == [kind |-> "pending", text |-> "", success |-> FALSE]

\* callChatAPI once requestUrl has resolved: the value it returns, or Threw.
\* requestUrl is called without throw:false, so it rejects on status >= 400.
callChatAPI(response) ==
    IF response.status >= 400 THEN Threw
    ELSE IF response.status # 200 THEN Threw
    ELSE IF ~response.json THEN Threw
    ELSE IF \E k \in 1..(Len(ContentPath) - 1) : ChatPath(k) \notin response.paths
    THEN Threw       \* TypeError: property read on undefined
    ELSE IF ContentPath \in response.paths
    THEN Returned(response.content, TRUE)
    ELSE Returned(Undefined, TRUE)

NoFormat ==
    [pc |-> "idle", text |-> "", template |-> [id |-> "none", prompt |-> ""],
     apiKey |-> <<>>, provider |-> "openai", response |-> NoChat,
     rejected |-> FALSE, result |-> Pending, requests |-> <<>>]

formatTranscriptionNoPassthrough(transcriptionText, template, apiKey, serviceProvider) ==
    [NoFormat EXCEPT
        !.pc = "requesting", !.text = transcriptionText, !.template = template,
        !.apiKey = apiKey, !.provider = serviceProvider,
        !.requests = << [kind |-> "format",
                         url |-> CHAT_ENDPOINTS[serviceProvider],
                         method |-> "POST", bearer |-> apiKey,
                         model |-> CHAT_MODELS[serviceProvider],
                         prompt |-> <<template.prompt, "\n\n", transcriptionText>>] >>]

\* formatTranscription up to its await: the passthrough test, else the
\* chat request is issued.
formatTranscription(transcriptionText, template, apiKey, serviceProvider) ==
    LET call == [NoFormat EXCEPT !.text = transcriptionText,
                    !.template = template, !.apiKey = apiKey,
                    !.provider = serviceProvider] IN
    IF Falsy(template.prompt) \/ template.id = "none"
    THEN [call EXCEPT !.pc = "done", !.result = Returned(transcriptionText, TRUE)]
    ELSE [call EXCEPT
            !.pc = "requesting",
            !.requests = << [kind |-> "format",
                             url |-> CHAT_ENDPOINTS[serviceProvider],
                             method |-> "POST", bearer |-> apiKey,
                             model |-> CHAT_MODELS[serviceProvider],
                             prompt |-> <<template.prompt, "\n\n",
                                          transcriptionText>>] >>]

\* The try / catch around callChatAPI: chat is what callChatAPI did.
formatSettle(call, chat) ==
    [call EXCEPT
        !.pc = "done",
        !.result = IF chat.kind = "threw"
                   THEN Returned(call.text, FALSE)
                   ELSE Returned(chat.text, TRUE)]

\* requestUrl of the chat request resolves with response / rejects.
formatResponse(call, response) ==
    formatSettle([call EXCEPT !.response = response], callChatAPI(response))

formatReject(call) ==
    formatSettle([call EXCEPT !.rejected = TRUE], Threw)

\* The templates tried: the built-in passthrough, a built-in with a prompt,
\* and custom templates with a prompt, an empty prompt, no prompt, and the
\* id "none" with a prompt.
Templates ==
    { [id |-> "none", prompt |-> ""],
      [id |-> "meeting", prompt |-> "Summarize as meeting notes"],
      [id |-> "custom-1", prompt |-> "Make a list"],
      [id |-> "custom-2", prompt |-> ""],
      [id |-> "custom-3", prompt |-> Null],
      [id |-> "none", prompt |-> "Make a list"] }


(***************************************************************************)
(* Settings                                                                *)
(***************************************************************************)
ValidOpenAIKey == SK \o Rep("a", MIN_KEY_LENGTH - 2)
ValidGroqKey == GSK \o Rep("b", MIN_KEY_LENGTH - 3)

\* BUILT_IN_TEMPLATES: the passthrough template and a template with a
\* prompt (lecture, brainstorm and interview differ from meeting only in
\* the text of the prompt).
BUILT_IN_TEMPLATES ==
    { [id |-> "none", prompt |-> ""],
      [id |-> "meeting", prompt |-> "Summarize as meeting notes"] }

\* A custom template saved without a prompt.
CustomTemplates == { [id |-> "custom-1", prompt |-> ""] }

Folder == <<"R", "e", "c">>

DEFAULT_SETTINGS ==
    [openaiApiKey |-> <<>>, groqApiKey |-> <<>>, language |-> "auto",
     serviceProvider |-> "openai", enableSpeakerDiarization |-> FALSE,
     customTemplates |-> {}, saveAudioFiles |-> FALSE, audioSaveFolder |-> <<>>]

\* loadSettings: the defaults overlaid with what was persisted.
loadSettings(data) ==
    [f \in DOMAIN DEFAULT_SETTINGS |->
        IF f \in DOMAIN data THEN data[f] ELSE DEFAULT_SETTINGS[f]]

\* The persisted data a behaviour starts from: no key yet (first run); an
\* OpenAI set-up saving recordings into a folder; a Groq set-up saving
\* into the vault root; a key of the wrong vendor under OpenAI; an OpenAI
\* key with everything else left at its default.
PersistedData ==
    { [language |-> "auto"],
      [openaiApiKey |-> ValidOpenAIKey, saveAudioFiles |-> TRUE,
       audioSaveFolder |-> <<" ">> \o Folder,
       customTemplates |-> CustomTemplates],
      [groqApiKey |-> ValidGroqKey, serviceProvider |-> "groq",
       language |-> "ko", saveAudioFiles |-> TRUE],
      [openaiApiKey |-> ValidGroqKey],
      [openaiApiKey |-> ValidOpenAIKey] }

apiKeyOf(s) ==
    IF s.serviceProvider = "openai" THEN s.openaiApiKey ELSE s.groqApiKey

(***************************************************************************)
(* MicrophoneRecorder                                                      *)
(***************************************************************************)
\* isRecording(): this.mediaRecorder?.state === "recording"
isRecording ==
    mediaRecorder # 0 /\ recorders[mediaRecorder].state = "recording"

\* What getUserMedia rejects with: a DOMException under its current or its
\* legacy name, one of another name, or an error that is no DOMException.
AcquisitionErrors ==
    {"NotAllowedError", "PermissionDeniedError", "NotFoundError",
     "DevicesNotFoundError", "OtherError", "TypeError"}

\* The outcomes of getUserMedia, new MediaRecorder(stream) and start().
StartOutcomes ==
    AcquisitionErrors \cup {"constructorThrows", "startThrows", "started"}

parseMediaErrorCurrentNames(outcome) ==
    IF outcome = "NotAllowedError" THEN "permission_denied"
    ELSE IF outcome = "NotFoundError" THEN "not_found"
    ELSE "general"

\* parseMediaError: the RecordingError type for what startRecording caught.
parseMediaError(outcome) ==
    IF outcome \in {"NotAllowedError", "PermissionDeniedError"}
    THEN "permission_denied"
    ELSE IF outcome \in {"NotFoundError", "DevicesNotFoundError"}
    THEN "not_found"
    ELSE "general"

NewRecorder(stream, state) ==
    [stream |-> stream, state |-> state, stopQueued |-> FALSE,
     listeners |-> <<>>]

\* MediaStreamTrack.stop() on the tracks of stream st: the stream is
\* released; a recorder still recording from it stops by itself.
StopTracks(st, recs) ==
    [r \in DOMAIN recs |->
        IF recs[r].stream = st /\ recs[r].state = "recording"
        THEN [recs[r] EXCEPT !.state = "inactive", !.stopQueued = TRUE]
        ELSE recs[r]]

\* MicrophoneRecorder.startRecording from the point getUserMedia settles.
recorderStartRecording(outcome) ==
    /\ starting > 0
    /\ starting' = starting - 1
    /\ starts' = starts
    /\ IF outcome \in AcquisitionErrors
       THEN UNCHANGED <<mediaRecorder, audioChunks, recorders, streams>>
       ELSE IF outcome = "constructorThrows"
       THEN /\ streams' = Append(streams, "live")
            /\ UNCHANGED <<mediaRecorder, audioChunks, recorders>>
       ELSE /\ streams' = Append(streams, "live")
            /\ recorders' = Append(recorders,
                   NewRecorder(Len(streams) + 1,
                       IF outcome = "started" THEN "recording" ELSE "inactive"))
            /\ mediaRecorder' = Len(recorders) + 1
            /\ audioChunks' = <<>>


\* MicrophoneRecorder.stopRecording with a recorder present: the stop
\* listener of promise p is registered and MediaRecorder.stop() is called.
\* On an inactive recorder stop() throws InvalidStateError or returns
\* silently, depending on the engine (throws = TRUE / FALSE); the listener
\* of a promise rejected that way only repeats, on emptied state, what the
\* first listener did, and is not kept.
recorderStopRecording(p, throws) ==
    LET r == mediaRecorder IN
    /\ r # 0
    /\ recorders' =
         IF recorders[r].state = "recording"
         THEN [recorders EXCEPT ![r].state = "inactive",
                                ![r].stopQueued = TRUE,
                                ![r].listeners = Append(@, p)]
         ELSE IF throws THEN recorders
         ELSE [recorders EXCEPT ![r].listeners = Append(@, p)]
    /\ UNCHANGED <<mediaRecorder, audioChunks, streams, starting, starts>>

\* The blob each stop listener of recorder r builds, in listener order:
\* the first takes the chunks, the later ones find them emptied.
ListenerBlob(chunks, i) == IF i = 1 THEN chunks ELSE <<>>

\* The stop event of recorder r is delivered: dataavailable pushes the
\* recording, then each stop listener builds its blob, empties the chunks,
\* stops the tracks of this.mediaRecorder and clears it.
recorderStopEvent(r) ==
    LET chunks == Append(audioChunks, r)
        ls == recorders[r].listeners
        delivered == [recorders EXCEPT ![r].stopQueued = FALSE,
                                       ![r].listeners = <<>>]
    IN
    /\ recorders[r].stopQueued
    /\ IF ls = <<>>
       THEN /\ audioChunks' = chunks
            /\ recorders' = delivered
            /\ UNCHANGED <<mediaRecorder, streams>>
       ELSE /\ audioChunks' = <<>>
            /\ mediaRecorder' = 0
            /\ IF mediaRecorder # 0
               THEN /\ streams' = [streams EXCEPT
                          ![recorders[mediaRecorder].stream] = "stopped"]
                    /\ recorders' =
                          StopTracks(recorders[mediaRecorder].stream, delivered)
               ELSE /\ streams' = streams
                    /\ recorders' = delivered
    /\ UNCHANGED <<starting, starts>>

(***************************************************************************)
(* VoiceWritingPlugin: one record per stopRecording / transcribeFile       *)
(* invocation that got past its first statement.  pc is the await the      *)
(* invocation is suspended at.                                             *)
(***************************************************************************)
Notice(message, duration) == [message |-> message, duration |-> duration]
LONG_DURATION == 5000
NoTemplate == [id |-> "<null>", prompt |-> Null]     \* null: Skip was clicked

NewPipe(kind) ==
    [kind |-> kind, pc |-> "stopping", blob |-> <<>>, fileName |-> "",
     filePath |-> <<>>, folderFailed |-> FALSE, audioFileSaved |-> FALSE,
     tx |-> NoCall,
     templates |-> {}, choice |-> "none", selected |-> NoTemplate,
     fmt |-> NoFormat, finalText |-> "",
     inserted |-> <<>>, copied |-> <<>>, notices |-> <<>>]

\* What is kept of an invocation that has returned: its requests are still
\* in flight or answered, its timer is still armed or fired.
Retired(pipe) ==
    [NewPipe(pipe.kind) EXCEPT
        !.pc = "done",
        !.tx = [NoCall EXCEPT !.pc = "done", !.requests = pipe.tx.requests,
                              !.responded = pipe.tx.responded,
                              !.timerFired = pipe.tx.timerFired]]

NoLast == [kind |-> "none", outcome |-> "", id |-> 0, pipe |-> NewPipe("none"),
           notices |-> <<>>]

PipeIds == 1..Len(pipes)

\* Room for one more recording or pipeline.
Budget == starts + Len(pipes) < MaxWork

\* What the transcription endpoint answers pipeline p: each pipeline has a
\* transcript of its own.
PipeResponses(p) ==
    { [status |-> 200,
       text |-> IF p = 1 THEN "hello world"
                ELSE IF p = 2 THEN "second take"
                ELSE "take " \o ToString(p),
       body |-> "text"] }
    \cup { [status |-> st, text |-> "", body |-> "structured"] :
             st \in Statuses \ {200, 400} }

\* What the chat endpoint answers: a completion, a body without the
\* content, a body without choices, an error status.
PipeChatResponses ==
    { r \in ChatResponses :
        \/ r.status = 200 /\ r.json /\ Cardinality(r.paths) \in {0, 3, 4}
        \/ r.status = 500 /\ ~r.json }

\* No continuation of an already settled promise is waiting to run.
NoMicrotask == \A p \in PipeIds : pipes[p].pc # "resolved"

Embed(filePath) == <<"![[">> \o filePath \o <<"]]">>

\* The pipeline of p moves on to pipe; one that returned is retired and
\* shown in last.
Put(p, pipe) ==
    IF pipe.pc = "done"
    THEN /\ pipes' = [pipes EXCEPT ![p] = Retired(pipe)]
         /\ last' = [NoLast EXCEPT !.kind = "pipe", !.id = p, !.pipe = pipe]
    ELSE /\ pipes' = [pipes EXCEPT ![p] = pipe]
         /\ last' = NoLast

failureNoticeQuotaGeneric(pipe) ==
    IF pipe.tx.outcome.message = "API_UNAUTHORIZED"
    THEN Notice("API_UNAUTHORIZED", LONG_DURATION)
    ELSE IF pipe.kind = "recording"
    THEN Notice("Transcription failed. Audio saved locally.", 0)
    ELSE Notice("Transcription failed. Please try again.", 0)

\* The notice of the catch block for what transcribe threw.
failureNotice(pipe) ==
    IF pipe.tx.outcome.message = "API_UNAUTHORIZED"
    THEN Notice("API_UNAUTHORIZED", LONG_DURATION)
    ELSE IF pipe.tx.outcome.message = "API_QUOTA_EXCEEDED"
    THEN Notice("API_QUOTA_EXCEEDED", LONG_DURATION)
    ELSE IF pipe.kind = "recording"
    THEN Notice("Transcription failed. Audio saved locally.", 0)
    ELSE Notice("Transcription failed. Please try again.", 0)

transcriptionFailedNoEmbed(pipe) ==
    [pipe EXCEPT !.pc = "done", !.notices = Append(@, failureNotice(pipe))]

\* The catch block around transcribe: the notice, and for a recording that
\* was saved the embed, if there is an active view.
transcriptionFailed(pipe) ==
    LET failed == [pipe EXCEPT !.pc = "done",
                               !.notices = Append(@, failureNotice(pipe))] IN
    IF pipe.kind = "recording" /\ pipe.audioFileSaved /\ activeView
    THEN [failed EXCEPT !.inserted = Embed(pipe.filePath) \o <<"\n">>]
    ELSE failed

\* transcribe returned: the template selection modal is opened with the
\* custom templates of this moment.
transcriptionSucceeded(pipe) ==
    [pipe EXCEPT !.pc = "template",
                 !.templates = settings.customTemplates,
                 !.notices = Append(@, Notice("TRANSCRIPTION_COMPLETE", 0))]

\* The code after await transcribe(...), for a call that has settled.
afterTranscribe(pipe) ==
    IF pipe.tx.outcome.kind = "ok"
    THEN transcriptionSucceeded(pipe)
    ELSE transcriptionFailed(pipe)

\* The status bar after await transcribe(...).
afterTranscribeStatus(pipe) ==
    IF pipe.tx.outcome.kind = "ok" THEN "Mic: Idle" ELSE "Mic: Error"

\* transcribe is called with the settings of this moment; a call that
\* fails its key checks is caught at once.
beginTranscribe(pipe) ==
    LET tx == transcribe(apiKeyOf(settings), settings.language,
                         settings.serviceProvider)
        called == [pipe EXCEPT !.tx = tx, !.pc = "reading"] IN
    IF tx.pc = "done" THEN afterTranscribe(called) ELSE called

insertTextEmbedIfPath(pipe) ==
    IF activeView
    THEN [pipe EXCEPT
            !.pc = "done",
            !.inserted =
                IF pipe.kind = "upload"
                THEN <<"**File: ", pipe.fileName, "**", "\n\n",
                       pipe.finalText, "\n">>
                ELSE IF pipe.filePath # <<>>
                THEN Embed(pipe.filePath) \o <<"\n\n", pipe.finalText, "\n">>
                ELSE <<pipe.finalText, "\n">>]
    ELSE [pipe EXCEPT
            !.pc = "done",
            !.notices = Append(@, Notice("COPIED_TO_CLIPBOARD", 0)),
            !.copied = <<pipe.finalText>>]

insertTextCopiesContent(pipe) ==
    LET content == IF pipe.kind = "upload"
                   THEN <<"**File: ", pipe.fileName, "**", "\n\n",
                          pipe.finalText, "\n">>
                   ELSE IF pipe.audioFileSaved
                   THEN Embed(pipe.filePath) \o <<"\n\n", pipe.finalText, "\n">>
                   ELSE <<pipe.finalText, "\n">> IN
    IF activeView
    THEN [pipe EXCEPT !.pc = "done", !.inserted = content]
    ELSE [pipe EXCEPT
            !.pc = "done",
            !.notices = Append(@, Notice("COPIED_TO_CLIPBOARD", 0)),
            !.copied = content]

\* The last part of the template callback: the active view is looked up
\* and the content goes to its editor, or the text to the clipboard.
insertText(pipe) ==
    IF activeView
    THEN [pipe EXCEPT
            !.pc = "done",
            !.inserted =
                IF pipe.kind = "upload"
                THEN <<"**File: ", pipe.fileName, "**", "\n\n",
                       pipe.finalText, "\n">>
                ELSE IF pipe.audioFileSaved
                THEN Embed(pipe.filePath) \o <<"\n\n", pipe.finalText, "\n">>
                ELSE <<pipe.finalText, "\n">>]
    ELSE [pipe EXCEPT
            !.pc = "done",
            !.notices = Append(@, Notice("COPIED_TO_CLIPBOARD", 0)),
            !.copied = <<pipe.finalText>>]

\* The template callback after await formatTranscription(...).
afterFormat(pipe) ==
    IF pipe.fmt.result.success
    THEN insertText([pipe EXCEPT
                        !.finalText = pipe.fmt.result.text,
                        !.notices = Append(@, Notice("FORMAT_COMPLETE", 0))])
    ELSE insertText([pipe EXCEPT
                        !.notices = Append(@, Notice("FORMAT_FAILED", 0))])

onTemplateSelectedLatestResult(pipe, selectedTemplate) ==
    LET latest == pipes[Len(pipes)].tx.outcome
        text == IF latest.kind = "ok" THEN latest.text
                ELSE pipe.tx.outcome.text
        chosen == [pipe EXCEPT
                      !.choice = IF selectedTemplate = NoTemplate
                                 THEN "skipped" ELSE "selected",
                      !.selected = selectedTemplate,
                      !.finalText = text] IN
    IF selectedTemplate # NoTemplate /\ selectedTemplate.id # "none"
    THEN LET fmt == formatTranscription(text, selectedTemplate,
                        apiKeyOf(settings), settings.serviceProvider)
             formatting == [chosen EXCEPT
                               !.fmt = fmt, !.pc = "formatting",
                               !.notices = Append(@, Notice("FORMATTING", 0))]
         IN IF fmt.pc = "done" THEN afterFormat(formatting)
            ELSE formatting
    ELSE insertText(chosen)

onTemplateSelectedCapturedKey(pipe, selectedTemplate) ==
    LET chosen == [pipe EXCEPT
                      !.choice = IF selectedTemplate = NoTemplate
                                 THEN "skipped" ELSE "selected",
                      !.selected = selectedTemplate,
                      !.finalText = pipe.tx.outcome.text] IN
    IF selectedTemplate # NoTemplate /\ selectedTemplate.id # "none"
    THEN LET fmt == formatTranscription(pipe.tx.outcome.text, selectedTemplate,
                        pipe.tx.apiKey, settings.serviceProvider)
             formatting == [chosen EXCEPT
                               !.fmt = fmt, !.pc = "formatting",
                               !.notices = Append(@, Notice("FORMATTING", 0))]
         IN IF fmt.pc = "done" THEN afterFormat(formatting)
            ELSE formatting
    ELSE insertText(chosen)

onTemplateSelectedFormatsNone(pipe, selectedTemplate) ==
    LET chosen == [pipe EXCEPT
                      !.choice = IF selectedTemplate = NoTemplate
                                 THEN "skipped" ELSE "selected",
                      !.selected = selectedTemplate,
                      !.finalText = pipe.tx.outcome.text] IN
    IF selectedTemplate # NoTemplate
    THEN LET fmt == formatTranscription(pipe.tx.outcome.text, selectedTemplate,
                        apiKeyOf(settings), settings.serviceProvider)
             formatting == [chosen EXCEPT
                               !.fmt = fmt, !.pc = "formatting",
                               !.notices = Append(@, Notice("FORMATTING", 0))]
         IN IF fmt.pc = "done" THEN afterFormat(formatting)
            ELSE formatting
    ELSE insertText(chosen)

\* The callback given to TemplateSelectionModal, called with the template
\* of the clicked card, or with null by the Skip button.
onTemplateSelected(pipe, selectedTemplate) ==
    LET chosen == [pipe EXCEPT
                      !.choice = IF selectedTemplate = NoTemplate
                                 THEN "skipped" ELSE "selected",
                      !.selected = selectedTemplate,
                      !.finalText = pipe.tx.outcome.text] IN
    IF selectedTemplate # NoTemplate /\ selectedTemplate.id # "none"
    THEN LET fmt == formatTranscription(pipe.tx.outcome.text, selectedTemplate,
                        apiKeyOf(settings), settings.serviceProvider)
             formatting == [chosen EXCEPT
                               !.fmt = fmt, !.pc = "formatting",
                               !.notices = Append(@, Notice("FORMATTING", 0))]
         IN IF fmt.pc = "done" THEN afterFormat(formatting)
            ELSE formatting
    ELSE insertText(chosen)

(***************************************************************************)
(* VoiceWritingPlugin: the handlers                                        *)
(***************************************************************************)
\* startRecording up to await recorder.startRecording(), which is
\* suspended at getUserMedia.
pluginStartRecording ==
    /\ starts < MaxStarts
    /\ Budget
    /\ starting' = starting + 1
    /\ starts' = starts + 1
    /\ last' = NoLast
    /\ UNCHANGED <<svcVars, settings, dataJson, mediaRecorder, audioChunks, recorders,
                   streams, uiVars, activeView, pipes, vault>>

\* stopRecording up to await recorder.stopRecording().  A rejected promise
\* is caught at once; otherwise the invocation waits for the stop event.
pluginStopRecording ==
    /\ recordingModal' = FALSE
    /\ UNCHANGED <<svcVars, settings, dataJson, activeView, vault>>
    /\ IF mediaRecorder = 0
       THEN /\ ribbonRecording' = FALSE
            /\ statusBar' = "Mic: Idle"
            /\ last' = [NoLast EXCEPT !.kind = "stop",
                                      !.outcome = "No active recording"]
            /\ UNCHANGED <<recVars, pipes>>
       ELSE /\ Len(pipes) < MaxPipes
            /\ Budget
            /\ \E throws \in BOOLEAN :
                 /\ recorderStopRecording(Len(pipes) + 1, throws)
                 /\ IF recorders[mediaRecorder].state # "recording" /\ throws
                    THEN /\ ribbonRecording' = FALSE
                         /\ statusBar' = "Mic: Idle"
                         /\ last' = [NoLast EXCEPT !.kind = "stop",
                                        !.outcome = "InvalidStateError"]
                         /\ pipes' = pipes
                    ELSE /\ pipes' = Append(pipes, NewPipe("recording"))
                         /\ last' = NoLast
                         /\ UNCHANGED <<ribbonRecording, statusBar>>

\* The Start Recording command.
StartCommand == NoMicrotask /\ pluginStartRecording

\* The Stop Recording command, and the Stop button of the recording modal.
StopCommand == NoMicrotask /\ pluginStopRecording

\* The ribbon icon and the status bar item: toggleRecording.
ToggleRecording ==
    /\ NoMicrotask
    /\ IF isRecording THEN pluginStopRecording ELSE pluginStartRecording

StartSettlesIndicatorsFirst(outcome) ==
    /\ NoMicrotask
    /\ recorderStartRecording(outcome)
    /\ ribbonRecording' = TRUE
    /\ statusBar' = "Mic: Recording..."
    /\ recordingModal' = TRUE
    /\ last' = [NoLast EXCEPT !.kind = "start", !.outcome = outcome,
                   !.notices = IF outcome = "started"
                               THEN <<Notice("RECORDING_STARTED", 0)>>
                               ELSE <<Notice(parseMediaError(outcome), 0)>>]
    /\ UNCHANGED <<svcVars, settings, dataJson, activeView, pipes, vault>>

\* getUserMedia settles: the rest of recorder.startRecording, then the
\* rest of startRecording.
StartSettles(outcome) ==
    /\ NoMicrotask
    /\ recorderStartRecording(outcome)
    /\ IF outcome = "started"
       THEN /\ ribbonRecording' = TRUE
            /\ statusBar' = "Mic: Recording..."
            /\ recordingModal' = TRUE
            /\ last' = [NoLast EXCEPT !.kind = "start", !.outcome = outcome,
                           !.notices = <<Notice("RECORDING_STARTED", 0)>>]
       ELSE /\ last' = [NoLast EXCEPT !.kind = "start", !.outcome = outcome,
                           !.notices = <<Notice(parseMediaError(outcome), 0)>>]
            /\ UNCHANGED uiVars
    /\ UNCHANGED <<svcVars, settings, dataJson, activeView, pipes, vault>>

\* The stop event of recorder r: each invocation waiting on it gets its
\* blob; its continuation runs next.
StopEvent(r) ==
    /\ NoMicrotask
    /\ r \in DOMAIN recorders
    /\ recorderStopEvent(r)
    /\ pipes' = [p \in PipeIds |->
                   IF \E i \in DOMAIN recorders[r].listeners :
                        recorders[r].listeners[i] = p
                   THEN [pipes[p] EXCEPT
                           !.pc = "resolved",
                           !.blob = ListenerBlob(Append(audioChunks, r),
                                      CHOOSE i \in DOMAIN recorders[r].listeners :
                                          recorders[r].listeners[i] = p)]
                   ELSE pipes[p]]
    /\ last' = NoLast
    /\ UNCHANGED <<svcVars, settings, dataJson, uiVars, activeView, vault>>

\* stopRecording after await recorder.stopRecording(): the indicators, and
\* the save step is entered or transcribe is called.
StopContinue(p) ==
    /\ p \in PipeIds
    /\ pipes[p].pc = "resolved"
    /\ ribbonRecording' = FALSE
    /\ LET next == IF settings.saveAudioFiles
                   THEN [pipes[p] EXCEPT
                           !.pc = "readBlob",
                           !.fileName = "recording-" \o ToString(p) \o ".webm"]
                   ELSE beginTranscribe(pipes[p]) IN
       /\ Put(p, next)
       /\ statusBar' = IF next.pc = "done" THEN "Mic: Error"
                       ELSE "Mic: Processing..."
    /\ UNCHANGED <<svcVars, settings, dataJson, recVars, recordingModal, activeView,
                   vault>>

\* blob.arrayBuffer() resolved: the path is composed; a missing folder is
\* created first.
ReadBlob(p) ==
    /\ NoMicrotask
    /\ p \in PipeIds
    /\ pipes[p].pc = "readBlob"
    /\ LET saveFolder == trim(settings.audioSaveFolder) IN
       Put(p, [pipes[p] EXCEPT
                 !.filePath = IF saveFolder # <<>>
                              THEN saveFolder \o <<"/", pipes[p].fileName>>
                              ELSE <<pipes[p].fileName>>,
                 !.pc = IF saveFolder # <<>> /\ saveFolder \notin vault.folders
                        THEN "createFolder" ELSE "createBinary"])
    /\ UNCHANGED <<svcVars, settings, dataJson, recVars, uiVars, activeView, vault>>

\* The folder part of a path folder/fileName.
FolderOf(filePath) == SubSeq(filePath, 1, Len(filePath) - 2)

\* vault.createFolder settles; it fails for a folder that exists by now,
\* and may fail otherwise.  A failure is only logged.
CreateFolder(p, ok) ==
    /\ NoMicrotask
    /\ p \in PipeIds
    /\ pipes[p].pc = "createFolder"
    /\ ok => FolderOf(pipes[p].filePath) \notin vault.folders
    /\ vault' = IF ok
                THEN [vault EXCEPT !.folders =
                        @ \cup {FolderOf(pipes[p].filePath)}]
                ELSE vault
    /\ Put(p, [pipes[p] EXCEPT !.pc = "createBinary",
                               !.folderFailed = ~ok])
    /\ UNCHANGED <<svcVars, settings, dataJson, recVars, uiVars, activeView>>

\* The folder a path lies in exists (the vault root always does).
FolderPresent(filePath) ==
    \/ Len(filePath) = 1
    \/ FolderOf(filePath) \in vault.folders

CreateBinarySavedAlways(p, ok) ==
    /\ NoMicrotask
    /\ p \in PipeIds
    /\ pipes[p].pc = "createBinary"
    /\ ok => FolderPresent(pipes[p].filePath)
    /\ vault' = IF ok THEN [vault EXCEPT !.files = @ \cup {pipes[p].filePath}]
                ELSE vault
    /\ LET next == beginTranscribe([pipes[p] EXCEPT !.audioFileSaved = TRUE]) IN
       /\ Put(p, next)
       /\ statusBar' = IF next.pc = "done" THEN "Mic: Error" ELSE statusBar
    /\ UNCHANGED <<svcVars, settings, dataJson, recVars, recordingModal, ribbonRecording,
                   activeView>>

\* vault.createBinary settles; then transcribe is called.
CreateBinary(p, ok) ==
    /\ NoMicrotask
    /\ p \in PipeIds
    /\ pipes[p].pc = "createBinary"
    /\ ok => FolderPresent(pipes[p].filePath)
    /\ vault' = IF ok THEN [vault EXCEPT !.files = @ \cup {pipes[p].filePath}]
                ELSE vault
    /\ LET saved == IF ok THEN [pipes[p] EXCEPT !.audioFileSaved = TRUE]
                    ELSE [pipes[p] EXCEPT !.notices =
                            Append(@, Notice("Failed to save audio file. Check vault permissions.", 0))]
           next == beginTranscribe(saved) IN
       /\ Put(p, next)
       /\ statusBar' = IF next.pc = "done" THEN "Mic: Error" ELSE statusBar
    /\ UNCHANGED <<svcVars, settings, dataJson, recVars, recordingModal, ribbonRecording,
                   activeView>>

\* audioBlob.arrayBuffer() inside transcribe resolved: the request is sent.
TranscribeSend(p) ==
    /\ NoMicrotask
    /\ p \in PipeIds
    /\ pipes[p].pc = "reading"
    /\ Put(p, [pipes[p] EXCEPT !.tx = transcribeSend(@), !.pc = "racing"])
    /\ UNCHANGED <<svcVars, settings, dataJson, recVars, uiVars, activeView, vault>>

\* An event of the race of pipeline p changed its call into tx.  If that
\* settled the call, the code after await transcribe(...) runs.
RaceSettles(p, tx) ==
    IF pipes[p].pc = "racing"
    THEN LET next == afterTranscribe([pipes[p] EXCEPT !.tx = tx]) IN
         /\ Put(p, next)
         /\ statusBar' = afterTranscribeStatus(next)
    ELSE /\ pipes' = [pipes EXCEPT ![p].tx = tx]
         /\ last' = NoLast
         /\ statusBar' = statusBar

\* The request of pipeline p is out and not answered / its timer not fired.
Racing(p) == p \in PipeIds /\ pipes[p].tx.requests # <<>>

TranscribeResponse(p, response) ==
    /\ NoMicrotask
    /\ Racing(p)
    /\ ~pipes[p].tx.responded
    /\ RaceSettles(p, raceResponse(pipes[p].tx, response))
    /\ UNCHANGED <<svcVars, settings, dataJson, recVars, recordingModal,
                   ribbonRecording, activeView, vault>>

TranscribeReject(p) ==
    /\ NoMicrotask
    /\ Racing(p)
    /\ ~pipes[p].tx.responded
    /\ RaceSettles(p, raceReject(pipes[p].tx))
    /\ UNCHANGED <<svcVars, settings, dataJson, recVars, recordingModal,
                   ribbonRecording, activeView, vault>>

TranscribeTimeout(p) ==
    /\ NoMicrotask
    /\ Racing(p)
    /\ ~pipes[p].tx.timerFired
    /\ RaceSettles(p, raceTimeout(pipes[p].tx))
    /\ UNCHANGED <<svcVars, settings, dataJson, recVars, recordingModal,
                   ribbonRecording, activeView, vault>>

\* A card of the template selection modal, or its Skip button, is clicked.
SelectTemplate(p, selectedTemplate) ==
    /\ NoMicrotask
    /\ p \in PipeIds
    /\ pipes[p].pc = "template"
    /\ selectedTemplate \in
         {NoTemplate} \cup BUILT_IN_TEMPLATES \cup pipes[p].templates
    /\ Put(p, onTemplateSelected(pipes[p], selectedTemplate))
    /\ UNCHANGED <<svcVars, settings, dataJson, recVars, uiVars, activeView, vault>>

\* The template selection modal is closed with Escape, its close button or
\* a click outside: onClose only empties the modal.
DismissTemplate(p) ==
    /\ NoMicrotask
    /\ p \in PipeIds
    /\ pipes[p].pc = "template"
    /\ Put(p, [pipes[p] EXCEPT !.choice = "dismissed", !.pc = "done"])
    /\ UNCHANGED <<svcVars, settings, dataJson, recVars, uiVars, activeView, vault>>

\* The chat request of pipeline p is answered.
FormatResponse(p, response) ==
    /\ NoMicrotask
    /\ p \in PipeIds
    /\ pipes[p].pc = "formatting"
    /\ Put(p, afterFormat([pipes[p] EXCEPT !.fmt = formatResponse(@, response)]))
    /\ UNCHANGED <<svcVars, settings, dataJson, recVars, uiVars, activeView, vault>>

\* The chat request of pipeline p fails in the network.
FormatReject(p) ==
    /\ NoMicrotask
    /\ p \in PipeIds
    /\ pipes[p].pc = "formatting"
    /\ Put(p, afterFormat([pipes[p] EXCEPT !.fmt = formatReject(@)]))
    /\ UNCHANGED <<svcVars, settings, dataJson, recVars, uiVars, activeView, vault>>

\* The files picked in the upload modal (handleFile lets only supported
\* extensions through).
UploadFiles == {"interview.mp3"}

\* transcribeFile up to await file.arrayBuffer().
TranscribeFile(file) ==
    /\ NoMicrotask
    /\ Len(pipes) < MaxPipes
    /\ Budget
    /\ pipes' = Append(pipes, [NewPipe("upload") EXCEPT
                                 !.pc = "readFile", !.fileName = file])
    /\ statusBar' = "Mic: Processing..."
    /\ last' = NoLast
    /\ UNCHANGED <<svcVars, settings, dataJson, recVars, recordingModal,
                   ribbonRecording, activeView, vault>>

ReadFileSaves(p) ==
    /\ NoMicrotask
    /\ p \in PipeIds
    /\ pipes[p].pc = "readFile"
    /\ LET next == IF settings.saveAudioFiles
                   THEN [pipes[p] EXCEPT !.pc = "readBlob"]
                   ELSE beginTranscribe(pipes[p]) IN
       /\ Put(p, next)
       /\ statusBar' = IF next.pc = "done" THEN "Mic: Error" ELSE statusBar
    /\ UNCHANGED <<svcVars, settings, dataJson, recVars, recordingModal,
                   ribbonRecording, activeView, vault>>

\* file.arrayBuffer() resolved: transcribe is called.
ReadFile(p) ==
    /\ NoMicrotask
    /\ p \in PipeIds
    /\ pipes[p].pc = "readFile"
    /\ LET next == beginTranscribe(pipes[p]) IN
       /\ Put(p, next)
       /\ statusBar' = IF next.pc = "done" THEN "Mic: Error" ELSE statusBar
    /\ UNCHANGED <<svcVars, settings, dataJson, recVars, recordingModal,
                   ribbonRecording, activeView, vault>>

\* The user opens, closes or leaves a note: the active Markdown view
\* appears or goes.
SwitchView ==
    /\ NoMicrotask
    /\ activeView' = ~activeView
    /\ last' = NoLast
    /\ UNCHANGED <<svcVars, settings, dataJson, recVars, uiVars, pipes, vault>>

(***************************************************************************)
(* VoiceWritingSettingTab and the Quick Options command                    *)
(***************************************************************************)
saveSettingsNothing(s) == dataJson

\* saveSettings: saveData(this.settings) writes the settings object.
saveSettings(s) ==
    s

\* A handler that has assigned its fields, s being the settings object
\* after that, and then awaits saveSettings().
Mutate(s) ==
    /\ NoMicrotask
    /\ settings' = s
    /\ dataJson' = saveSettings(s)
    /\ last' = NoLast
    /\ UNCHANGED <<svcVars, recVars, uiVars, activeView, pipes, vault>>

\* The onChange handlers of the settings tab.
SetServiceProvider(value) ==
    Mutate([settings EXCEPT !.serviceProvider = value])

SetOpenaiApiKey(value) ==
    Mutate([settings EXCEPT !.openaiApiKey = value])

SetGroqApiKey(value) ==
    Mutate([settings EXCEPT !.groqApiKey = value])

SetSaveAudioFiles(value) ==
    Mutate([settings EXCEPT !.saveAudioFiles = value])

\* The folder field is shown only while saving is enabled.
SetAudioSaveFolder(value) ==
    /\ settings.saveAudioFiles
    /\ Mutate([settings EXCEPT !.audioSaveFolder = value])

SetSpeakerDiarization(value) ==
    Mutate([settings EXCEPT !.enableSpeakerDiarization = value])

SetLanguage(value) ==
    Mutate([settings EXCEPT !.language = value])

\* The Apply button of the Quick Options modal.
QuickOptions(lang, service, diarization) ==
    Mutate([settings EXCEPT !.language = lang, !.serviceProvider = service,
                            !.enableSpeakerDiarization = diarization])

(***************************************************************************)
(* The plugin                                                              *)
(***************************************************************************)
\* onload: the state after construction, for settings loaded from data.
InitPlugin(data) ==
    /\ dataJson = data
    /\ settings = loadSettings(data)
    /\ mediaRecorder = 0
    /\ audioChunks = <<>>
    /\ recorders = <<>>
    /\ streams = <<>>
    /\ starting = 0
    /\ starts = 0
    /\ recordingModal = FALSE
    /\ statusBar = "Mic: Idle"
    /\ ribbonRecording = FALSE
    /\ activeView = TRUE
    /\ pipes = <<>>
    /\ vault = [folders |-> {}, files |-> {}]
    /\ last = NoLast

Init ==
    /\ tcall = NoCall
    /\ fcall = NoFormat
    /\ probes = <<>>
    /\ \E data \in PersistedData : InitPlugin(data)

Next ==
    \/ StartCommand
    \/ StopCommand
    \/ ToggleRecording
    \/ \E outcome \in StartOutcomes : StartSettles(outcome)
    \/ \E r \in DOMAIN recorders : StopEvent(r)
    \/ \E p \in PipeIds : StopContinue(p)
    \/ \E p \in PipeIds : ReadBlob(p)
    \/ \E p \in PipeIds, ok \in BOOLEAN : CreateFolder(p, ok)
    \/ \E p \in PipeIds, ok \in BOOLEAN : CreateBinary(p, ok)
    \/ \E p \in PipeIds : TranscribeSend(p)
    \/ \E p \in PipeIds : \E response \in PipeResponses(p) :
          TranscribeResponse(p, response)
    \/ \E p \in PipeIds : TranscribeReject(p)
    \/ \E p \in PipeIds : TranscribeTimeout(p)
    \/ \E p \in PipeIds, t \in {NoTemplate} \cup BUILT_IN_TEMPLATES \cup CustomTemplates :
          SelectTemplate(p, t)
    \/ \E p \in PipeIds : DismissTemplate(p)
    \/ \E p \in PipeIds, response \in PipeChatResponses :
          FormatResponse(p, response)
    \/ \E p \in PipeIds : FormatReject(p)
    \/ \E file \in UploadFiles : TranscribeFile(file)
    \/ \E p \in PipeIds : ReadFile(p)
    \/ SwitchView

Spec == Init /\ [][Next]_vars

\* The steps the runtime takes by itself: promises of getUserMedia, the
\* recorder, the vault and the file settle, requests are answered or fail,
\* the race timer fires.  The commands, the upload, the template modal and
\* the change of view wait for the user.
SystemStep ==
    \/ \E outcome \in StartOutcomes : StartSettles(outcome)
    \/ \E r \in DOMAIN recorders : StopEvent(r)
    \/ \E p \in PipeIds : StopContinue(p)
    \/ \E p \in PipeIds : ReadBlob(p)
    \/ \E p \in PipeIds, ok \in BOOLEAN : CreateFolder(p, ok)
    \/ \E p \in PipeIds, ok \in BOOLEAN : CreateBinary(p, ok)
    \/ \E p \in PipeIds : TranscribeSend(p)
    \/ \E p \in PipeIds : \E response \in PipeResponses(p) :
          TranscribeResponse(p, response)
    \/ \E p \in PipeIds : TranscribeReject(p)
    \/ \E p \in PipeIds : TranscribeTimeout(p)
    \/ \E p \in PipeIds : \E response \in PipeChatResponses :
          FormatResponse(p, response)
    \/ \E p \in PipeIds : FormatReject(p)
    \/ \E p \in PipeIds : ReadFile(p)

\* The plugin with an event loop that runs every continuation that is
\* ready: a pending promise settles, a queued continuation runs.
SpecFair == Init /\ [][Next]_vars /\ WF_vars(SystemStep)

(***************************************************************************)
(* TranscriptionService.transcribe called on its own                       *)
(***************************************************************************)
CallTranscribe(apiKey, language, provider) ==
    /\ tcall.pc = "idle"
    /\ tcall' = transcribe(apiKey, language, provider)
    /\ UNCHANGED <<fcall, probes, pluginVars>>

CallTranscribeSend ==
    /\ tcall.pc = "reading"
    /\ tcall' = transcribeSend(tcall)
    /\ UNCHANGED <<fcall, probes, pluginVars>>

CallResponse(response) ==
    /\ tcall.requests # <<>>
    /\ ~tcall.responded
    /\ tcall' = raceResponse(tcall, response)
    /\ UNCHANGED <<fcall, probes, pluginVars>>

CallReject ==
    /\ tcall.requests # <<>>
    /\ ~tcall.responded
    /\ tcall' = raceReject(tcall)
    /\ UNCHANGED <<fcall, probes, pluginVars>>

CallTimeout ==
    /\ tcall.requests # <<>>
    /\ ~tcall.timerFired
    /\ tcall' = raceTimeout(tcall)
    /\ UNCHANGED <<fcall, probes, pluginVars>>

NextTranscribe ==
    \/ \E apiKey \in Keys, language \in SUPPORTED_LANGUAGES, provider \in Providers :
          CallTranscribe(apiKey, language, provider)
    \/ CallTranscribeSend
    \/ \E response \in Responses : CallResponse(response)
    \/ CallReject
    \/ CallTimeout

InitService ==
    /\ tcall = NoCall
    /\ fcall = NoFormat
    /\ probes = <<>>
    /\ InitPlugin([language |-> "auto"])

SpecTranscribe == InitService /\ [][NextTranscribe]_vars

(***************************************************************************)
(* FormattingService.formatTranscription called on its own                 *)
(***************************************************************************)
CallFormat(transcriptionText, template, apiKey, serviceProvider) ==
    /\ fcall.pc = "idle"
    /\ fcall' = formatTranscription(transcriptionText, template, apiKey,
                                    serviceProvider)
    /\ UNCHANGED <<tcall, probes, pluginVars>>

CallFormatResponse(response) ==
    /\ fcall.pc = "requesting"
    /\ fcall' = formatResponse(fcall, response)
    /\ UNCHANGED <<tcall, probes, pluginVars>>

CallFormatReject ==
    /\ fcall.pc = "requesting"
    /\ fcall' = formatReject(fcall)
    /\ UNCHANGED <<tcall, probes, pluginVars>>

NextFormat ==
    \/ \E text \in Transcripts, template \in Templates, provider \in Providers :
          CallFormat(text, template, ValidOpenAIKey, provider)
    \/ \E response \in ChatResponses : CallFormatResponse(response)
    \/ CallFormatReject

SpecFormat == InitService /\ [][NextFormat]_vars

(***************************************************************************)
(* TranscriptionService.testApiKey called from the settings tab, beside    *)
(* transcribe calls made with the same stored keys                         *)
(***************************************************************************)
\* The keys the settings hold: none, a blank one, a key of each provider,
\* and a key pasted with a space before and after it.
StoredKeys ==
    { <<>>, <<" ">>, ValidOpenAIKey, ValidGroqKey,
      <<" ">> \o ValidOpenAIKey \o <<" ">> }

\* The Test button of a key field.
CallTest(apiKey, serviceProvider) ==
    /\ Len(probes) < MaxProbes
    /\ probes' = Append(probes, testApiKey(apiKey, serviceProvider))
    /\ UNCHANGED <<tcall, fcall, pluginVars>>

CallTestResponse(i, status) ==
    /\ i \in DOMAIN probes
    /\ probes[i].pc = "requesting"
    /\ probes' = [probes EXCEPT ![i] = testResponse(@, status)]
    /\ UNCHANGED <<tcall, fcall, pluginVars>>

CallTestReject(i) ==
    /\ i \in DOMAIN probes
    /\ probes[i].pc = "requesting"
    /\ probes' = [probes EXCEPT ![i] = testReject(@)]
    /\ UNCHANGED <<tcall, fcall, pluginVars>>

NextTest ==
    \/ \E apiKey \in StoredKeys, provider \in Providers :
          CallTest(apiKey, provider)
    \/ \E i \in DOMAIN probes, status \in TestStatuses :
          CallTestResponse(i, status)
    \/ \E i \in DOMAIN probes : CallTestReject(i)
    \/ \E apiKey \in StoredKeys, provider \in Providers :
          CallTranscribe(apiKey, "auto", provider)
    \/ CallTranscribeSend
    \/ \E response \in PipeResponses(1) : CallResponse(response)

SpecTest == InitService /\ [][NextTest]_vars

(***************************************************************************)
(* The settings tab and Quick Options, beside the pipeline of an upload    *)
(***************************************************************************)
\* What is typed and chosen in the settings.
LanguagesTried == {"auto", "ko"}
FoldersTried == {<<>>, Folder}

NextSettings ==
    \/ \E value \in Providers : SetServiceProvider(value)
    \/ \E value \in {<<>>, ValidOpenAIKey} : SetOpenaiApiKey(value)
    \/ \E value \in {<<>>, ValidGroqKey} : SetGroqApiKey(value)
    \/ \E value \in BOOLEAN : SetSaveAudioFiles(value)
    \/ \E value \in FoldersTried : SetAudioSaveFolder(value)
    \/ \E value \in BOOLEAN : SetSpeakerDiarization(value)
    \/ \E value \in LanguagesTried : SetLanguage(value)
    \/ \E lang \in LanguagesTried, service \in Providers, diarization \in BOOLEAN :
          QuickOptions(lang, service, diarization)
    \/ \E file \in UploadFiles : Len(pipes) < MaxUploads /\ TranscribeFile(file)
    \/ \E p \in PipeIds : ReadFile(p)
    \/ \E p \in PipeIds : TranscribeSend(p)
    \/ \E p \in PipeIds : \E response \in PipeResponses(p) :
          TranscribeResponse(p, response)
    \/ \E p \in PipeIds : TranscribeReject(p)
    \/ \E p \in PipeIds :
          \E selectedTemplate \in {NoTemplate} \cup BUILT_IN_TEMPLATES :
             SelectTemplate(p, selectedTemplate)
    \/ \E p \in PipeIds : \E response \in PipeChatResponses :
          FormatResponse(p, response)
    \/ \E p \in PipeIds : FormatReject(p)

SpecSettings == Init /\ [][NextSettings]_vars

(***************************************************************************)
(* One recording or upload and one key test, with the diarization flag     *)
(* changed at any moment and every other setting left as loaded            *)
(***************************************************************************)
\* The Test button of the key field of a provider.
TestButton(serviceProvider) ==
    /\ Len(probes) < MaxTests
    /\ CallTest(IF serviceProvider = "openai" THEN settings.openaiApiKey
                ELSE settings.groqApiKey, serviceProvider)

NextDiarization ==
    \/ \E value \in BOOLEAN : SetSpeakerDiarization(value)
    \/ \E diarization \in BOOLEAN :
          QuickOptions(settings.language, settings.serviceProvider, diarization)
    \/ \E provider \in Providers : TestButton(provider)
    \/ starts < MaxUploads /\ StartCommand
    \/ \E outcome \in StartOutcomes : StartSettles(outcome)
    \/ Len(pipes) < MaxUploads /\ StopCommand
    \/ \E r \in DOMAIN recorders : StopEvent(r)
    \/ \E p \in PipeIds : StopContinue(p)
    \/ \E p \in PipeIds : ReadBlob(p)
    \/ \E p \in PipeIds, ok \in BOOLEAN : CreateFolder(p, ok)
    \/ \E p \in PipeIds, ok \in BOOLEAN : CreateBinary(p, ok)
    \/ \E file \in UploadFiles : Len(pipes) < MaxUploads /\ TranscribeFile(file)
    \/ \E p \in PipeIds : ReadFile(p)
    \/ \E p \in PipeIds : TranscribeSend(p)
    \/ \E p \in PipeIds : \E response \in PipeResponses(p) :
          TranscribeResponse(p, response)
    \/ \E p \in PipeIds :
          \E selectedTemplate \in {NoTemplate} \cup BUILT_IN_TEMPLATES :
             SelectTemplate(p, selectedTemplate)
    \/ \E p \in PipeIds : \E response \in PipeChatResponses :
          FormatResponse(p, response)
    \/ SwitchView

SpecDiarization == Init /\ [][NextDiarization]_vars

(***************************************************************************)
(* Properties of TranscriptionService.transcribe (under SpecTranscribe)    *)
(***************************************************************************)
\* C1: whenever the timer settled the race, the call has failed with the
\* timeout error and stays so, also once the late response has arrived: no
\* result is returned for that call.
C1_TimeoutBeatsLateResponse ==
    tcall.first = "timer" =>
        /\ tcall.pc = "done"
        /\ tcall.outcome = Failure("Transcription timeout", 0)
        /\ tcall.response = NoResponse

\* A call whose timer fired first and whose 200 response arrived later.
C1_Witness ==
    /\ tcall.first = "timer"
    /\ tcall.late.status = 200
    /\ tcall.outcome.kind = "error"

\* C2: a call settled by a response succeeds with the text of the response
\* exactly when its status is 200, fails with API_UNAUTHORIZED exactly when
\* it is 401, with API_QUOTA_EXCEEDED exactly when it is 429; a call
\* settled otherwise (timeout, network error, key checks) does none of
\* the three.
C2_ResponseClassification ==
    LET settled == tcall.first = "response"
        status == tcall.response.status IN
    /\ tcall.outcome.kind = "ok" <=> settled /\ status = 200
    /\ tcall.outcome.kind = "ok" => tcall.outcome.text = tcall.response.text
    /\ tcall.outcome.message = "API_UNAUTHORIZED" <=> settled /\ status = 401
    /\ tcall.outcome.message = "API_QUOTA_EXCEEDED" <=> settled /\ status = 429
    /\ settled => tcall.outcome.kind \in {"ok", "error"}

\* A call answered with status 429.
C2_Witness ==
    /\ tcall.first = "response"
    /\ tcall.response.status = 429
    /\ tcall.outcome.message = "API_QUOTA_EXCEEDED"

\* C7: a call with a non-empty key outside the shape rule of its provider
\* (after trimming: longer than 20 characters and, for openai, starting
\* with "sk-", for groq, free of whitespace) has failed with Invalid API
\* key format and has issued no request.
C7_InvalidKeyFormat ==
    LET key == tcall.apiKey
        inShape ==
            \E i, j \in 1..Len(key) :
                /\ \A k \in 1..Len(key) :
                      (k < i \/ k > j) => key[k] \in Whitespace
                /\ key[i] \notin Whitespace
                /\ key[j] \notin Whitespace
                /\ j - i + 1 > 20
                /\ tcall.provider = "openai" =>
                      key[i] = "s" /\ key[i + 1] = "k" /\ key[i + 2] = "-"
                /\ tcall.provider = "groq" =>
                      \A k \in i..j : key[k] \notin Whitespace
    IN (tcall.pc # "idle" /\ key # <<>> /\ ~inShape) =>
          /\ tcall.pc = "done"
          /\ tcall.outcome = Failure("Invalid API key format", 0)
          /\ tcall.requests = <<>>

\* A groq call whose key is long enough but has a space inside.
C7_Witness ==
    /\ tcall.pc = "done"
    /\ tcall.provider = "groq"
    /\ Len(trim(tcall.apiKey)) > MIN_KEY_LENGTH
    /\ hasWhitespace(trim(tcall.apiKey))
    /\ tcall.outcome.message = "Invalid API key format"

\* C8: a call with the empty key has failed with API Key missing, with the
\* missing-key notice as its only notice (the shape check never ran) and
\* without a request.
C8_MissingKey ==
    (tcall.pc # "idle" /\ tcall.apiKey = <<>>) =>
        /\ tcall.pc = "done"
        /\ tcall.outcome = Failure("API Key missing", 0)
        /\ tcall.notices = <<"API_KEY_MISSING">>
        /\ tcall.requests = <<>>

\* A call made with the empty key.
C8_Witness ==
    /\ tcall.pc = "done"
    /\ tcall.apiKey = <<>>
    /\ tcall.outcome.message = "API Key missing"

\* C9: the body of every request sent has the parts file, model for the
\* language "auto", and file, model, language (carrying the code) for
\* every other language.
C9_MultipartParts ==
    \A i \in DOMAIN tcall.requests :
        LET parts == tcall.requests[i].parts
            names == [k \in DOMAIN parts |-> parts[k].name] IN
        IF tcall.language = "auto"
        THEN names = <<"file", "model">>
        ELSE /\ names = <<"file", "model", "language">>
             /\ parts[3].value = tcall.language

\* A request sent for the language "ko".
C9_Witness ==
    /\ tcall.requests # <<>>
    /\ tcall.language = "ko"
    /\ Len(tcall.requests[1].parts) = 3

\* C23: a call settled by a response whose status is none of 200, 401 and
\* 429 has failed with the generic error carrying that status; for a
\* structured body the error also carries the message of the body, for
\* any other body it carries the status alone.
C23_GenericErrorCarriesBodyMessage ==
    (tcall.first = "response" /\ tcall.response.status \notin {200, 401, 429}) =>
        /\ tcall.outcome.kind = "error"
        /\ tcall.outcome.status = tcall.response.status
        /\ IF tcall.response.body = "structured"
           THEN parseErrorResponse(tcall.response).message
                   \in {tcall.outcome.message, tcall.outcome.text}
           ELSE tcall.outcome.message = "Transcription failed"

(***************************************************************************)
(* Properties of FormattingService.formatTranscription (under SpecFormat)  *)
(***************************************************************************)
\* C5: a call that sent its request and whose request failed (status other
\* than 200, network error, or a body without choices[0].message.content)
\* has returned the original text with success = false.
C5_FormatFallback ==
    LET failed == \/ fcall.rejected
                  \/ fcall.response.status # 200
                  \/ ~fcall.response.json
                  \/ ContentPath \notin fcall.response.paths IN
    (fcall.pc = "done" /\ fcall.requests # <<>> /\ failed) =>
        fcall.result = Returned(fcall.text, FALSE)

\* C6: a call with a template whose prompt is null, absent or empty, or
\* whose id is "none", has returned the input text with success = true and
\* has sent no request.
C6_FormatPassthrough ==
    (fcall.pc # "idle"
       /\ (fcall.template.prompt \in {Null, ""} \/ fcall.template.id = "none")) =>
        /\ fcall.pc = "done"
        /\ fcall.result = Returned(fcall.text, TRUE)
        /\ fcall.requests = <<>>

\* A call with the template of id "none" that carries a prompt.
C6_Witness ==
    /\ fcall.pc = "done"
    /\ fcall.template = [id |-> "none", prompt |-> "Make a list"]
    /\ fcall.result.text = fcall.text

(***************************************************************************)
(* Properties of the plugin (under Spec)                                   *)
(***************************************************************************)
\* C3 as stated: a recording pipeline that saved its audio and whose
\* transcription failed has inserted the embed of the saved file.
C3_EmbedAlwaysInserted ==
    (/\ last.kind = "pipe"
     /\ last.pipe.kind = "recording"
     /\ last.pipe.audioFileSaved
     /\ last.pipe.tx.outcome.kind = "error") =>
        last.pipe.inserted = Embed(last.pipe.filePath) \o <<"\n">>

\* C3: a recording pipeline that saved its audio and whose transcription
\* failed has inserted the embed of the saved file if there was an active
\* view when the failure was handled; if there was none it has inserted and
\* copied nothing (the file stays in the vault).
C3_EmbedInsertedInActiveView ==
    (/\ last.kind = "pipe"
     /\ last.pipe.kind = "recording"
     /\ last.pipe.audioFileSaved
     /\ last.pipe.tx.outcome.kind = "error") =>
        /\ last.pipe.filePath \in vault.files
        /\ activeView =>
              last.pipe.inserted = Embed(last.pipe.filePath) \o <<"\n">>
        /\ ~activeView =>
              last.pipe.inserted = <<>> /\ last.pipe.copied = <<>>

\* A saved recording whose transcription timed out, with an active view.
C3_Witness ==
    /\ last.kind = "pipe"
    /\ last.pipe.kind = "recording"
    /\ last.pipe.audioFileSaved
    /\ last.pipe.tx.outcome.message = "Transcription timeout"
    /\ activeView
    /\ last.pipe.inserted # <<>>

\* C4: a pipeline that has ended after a successful transcription has
\* delivered its final text, the transcript or its formatted version, to
\* exactly one of the editor and the clipboard.
C4_TranscriptDelivered ==
    (/\ last.kind = "pipe"
     /\ last.pipe.tx.outcome.kind = "ok") =>
        /\ (last.pipe.inserted # <<>>) # (last.pipe.copied # <<>>)
        /\ last.pipe.finalText \in {last.pipe.tx.outcome.text} \cup FormattedTexts
        /\ \/ \E i \in DOMAIN last.pipe.inserted :
                 last.pipe.inserted[i] = last.pipe.finalText
           \/ last.pipe.copied = <<last.pipe.finalText>>

\* No invocation is suspended with its continuation due, no stop event is
\* queued and no getUserMedia call is pending.
Quiescent ==
    /\ starting = 0
    /\ NoMicrotask
    /\ \A r \in DOMAIN recorders : ~recorders[r].stopQueued

\* C10: in a quiescent state every stream that is still live is the stream
\* of the recorder the MicrophoneRecorder holds.
C10_MicrophoneReleased ==
    Quiescent =>
        \A st \in DOMAIN streams :
            streams[st] = "live" =>
                mediaRecorder # 0 /\ recorders[mediaRecorder].stream = st

(***************************************************************************)
(* Properties of the recording session (under Spec)                        *)
(***************************************************************************)
\* The recorders that are capturing.
Recording == {r \in DOMAIN recorders : recorders[r].state = "recording"}

\* C11: no step invokes recorder.startRecording() while a recording is
\* active, and at most one recorder is capturing at any time.
C11_SingleFlightStart ==
    [][/\ starting' > starting => ~isRecording
       /\ Cardinality(Recording') <= 1]_vars

\* C12: the stop event of a recorder that was recording resolves at most
\* one stopRecording promise with a blob: while its stop event is queued
\* at most one stop listener waits on it, so no session feeds two
\* pipelines.
C12_OneBlobPerSession ==
    \A r \in DOMAIN recorders :
        recorders[r].stopQueued => Len(recorders[r].listeners) <= 1

\* No session is open: no recorder is capturing and no stop event is
\* still to be delivered.
NoSession ==
    Recording = {} /\ \A r \in DOMAIN recorders : ~recorders[r].stopQueued

\* C13: a step that invokes stopRecording while no session is open (none
\* was started successfully, or the last one was finalized) is rejected
\* with NO_ACTIVE_RECORDING, starts no pipeline and leaves the recorder as
\* it was.
C13_StopWithoutSession ==
    [][(/\ NoSession
        /\ \/ last'.kind = "stop"
           \/ Len(pipes') > Len(pipes) /\ pipes'[Len(pipes')].kind = "recording")
       => /\ last'.kind = "stop"
          /\ last'.outcome = "No active recording"
          /\ pipes' = pipes
          /\ UNCHANGED recVars]_vars

\* The sessions that were started and whose stop was not invoked: the
\* recorder is capturing, or it was stopped by its tracks only.
Unstopped ==
    {r \in DOMAIN recorders :
        \/ recorders[r].state = "recording"
        \/ recorders[r].stopQueued /\ recorders[r].listeners = <<>>}

\* C14: isRecording() is true while a session was started and its stop was
\* not invoked, and false while no session is open (none started, the start
\* failed, or the stop completed).
C14_IsRecording ==
    /\ Unstopped # {} => isRecording
    /\ NoSession => ~isRecording

\* Nothing shows a recording: the recorder is not capturing, the ribbon and
\* the status bar are not marked and the recording modal is closed.
Idle ==
    /\ ~isRecording
    /\ ~ribbonRecording
    /\ ~recordingModal
    /\ statusBar # "Mic: Recording..."

\* C15: a step in which startRecording fails shows the message of the
\* capture error as its one notice, leaves an idle session idle, and
\* writes no file, starts no pipeline and inserts nothing.
C15_FailedStartStaysIdle ==
    [][(last'.kind = "start" /\ last'.outcome # "started") =>
          /\ last'.notices \in
                { <<Notice(m, 0)>> :
                     m \in {"permission_denied", "not_found", "general"} }
          /\ last'.outcome = "NotAllowedError" =>
                last'.notices[1].message = "permission_denied"
          /\ last'.outcome = "NotFoundError" =>
                last'.notices[1].message = "not_found"
          /\ Idle => Idle'
          /\ vault' = vault
          /\ pipes' = pipes]_vars

\* A start that was denied the microphone, with nothing else going on.
C15_Witness ==
    /\ last.kind = "start"
    /\ last.outcome = "NotAllowedError"
    /\ Idle
    /\ pipes = <<>>
    /\ vault.files = {}

(***************************************************************************)
(* Properties of the pipeline (under Spec)                                 *)
(***************************************************************************)
SAVE_FAILED == Notice("Failed to save audio file. Check vault permissions.", 0)

\* The recording invocations that are past their save step with saving
\* enabled: those in progress, and the one that has just returned.
PastSave ==
    { pipes[p] : p \in { q \in PipeIds :
                           /\ pipes[q].kind = "recording"
                           /\ pipes[q].fileName # ""
                           /\ pipes[q].pc \in {"reading", "racing", "template",
                                               "formatting"} } }
    \cup { pipe \in {last.pipe} :
              /\ last.kind = "pipe"
              /\ pipe.kind = "recording"
              /\ pipe.fileName # "" }

HasNotice(pipe, notice) ==
    \E i \in DOMAIN pipe.notices : pipe.notices[i] = notice

HasEmbed(pipe) ==
    \E i \in DOMAIN pipe.inserted : pipe.inserted[i] = "![["

\* C16 as stated: an invocation whose folder creation or file write failed
\* has shown the save-failure notice, has called transcribe, is marked as
\* not saved and has inserted no embed.
C16_SaveFailureReported ==
    \A pipe \in PastSave :
        (pipe.folderFailed \/ pipe.filePath \notin vault.files) =>
            /\ HasNotice(pipe, SAVE_FAILED)
            /\ pipe.tx.pc # "idle"
            /\ ~pipe.audioFileSaved
            /\ ~HasEmbed(pipe)

\* C16: an invocation whose file was not written, after a failed folder
\* creation or not, has shown the save-failure notice, has called
\* transcribe, is marked as not saved and has inserted no embed; one whose
\* file was written is marked as saved and has shown no such notice, also
\* when its folder creation failed.
C16_WriteFailureReported ==
    \A pipe \in PastSave :
        /\ pipe.tx.pc # "idle"
        /\ pipe.filePath \notin vault.files =>
              /\ HasNotice(pipe, SAVE_FAILED)
              /\ ~pipe.audioFileSaved
              /\ ~HasEmbed(pipe)
        /\ pipe.filePath \in vault.files =>
              /\ ~HasNotice(pipe, SAVE_FAILED)
              /\ pipe.audioFileSaved

\* A recording whose folder could not be created and whose file was not
\* written, transcribed and inserted into the note.
C16_Witness ==
    /\ last.kind = "pipe"
    /\ last.pipe.kind = "recording"
    /\ last.pipe.folderFailed
    /\ last.pipe.filePath \notin vault.files
    /\ HasNotice(last.pipe, SAVE_FAILED)
    /\ last.pipe.tx.outcome.kind = "ok"
    /\ last.pipe.inserted = <<last.pipe.finalText, "\n">>

\* C17: what a recording invocation inserted after a successful
\* transcription is the embed of its file, an empty line, the final text
\* and a newline if the file is in the vault, and otherwise the final text
\* and a newline, nothing else.
C17_InsertedContent ==
    (/\ last.kind = "pipe"
     /\ last.pipe.kind = "recording"
     /\ last.pipe.tx.outcome.kind = "ok"
     /\ last.pipe.inserted # <<>>) =>
        IF last.pipe.filePath \in vault.files
        THEN last.pipe.inserted =
                <<"![[">> \o last.pipe.filePath
                    \o <<"]]", "\n\n", last.pipe.finalText, "\n">>
        ELSE last.pipe.inserted = <<last.pipe.finalText, "\n">>

\* Saving disabled, the transcript "hello world", the template none: the
\* note received "hello world\n".
C17_Witness ==
    /\ last.kind = "pipe"
    /\ last.pipe.kind = "recording"
    /\ ~settings.saveAudioFiles
    /\ last.pipe.selected.id = "none"
    /\ last.pipe.inserted = <<"hello world", "\n">>

COPIED == Notice("COPIED_TO_CLIPBOARD", 0)

\* The invocation that has just returned from its template callback.
Delivered ==
    last.kind = "pipe" /\ last.pipe.choice \in {"selected", "skipped"}

\* C18: an invocation whose template callback has run to its end has, with
\* an active view, inserted the composed content (label and text for an
\* upload, embed and text or text alone for a recording) and left the
\* clipboard alone and shown no clipboard notice; without one it has put
\* the final text alone on the clipboard, shown that notice and inserted
\* nothing.
C18_InsertionSink ==
    Delivered =>
        LET pipe == last.pipe
            content ==
                IF pipe.kind = "upload"
                THEN <<"**File: ", pipe.fileName, "**", "\n\n",
                       pipe.finalText, "\n">>
                ELSE IF pipe.filePath \in vault.files
                THEN <<"![[">> \o pipe.filePath
                        \o <<"]]", "\n\n", pipe.finalText, "\n">>
                ELSE <<pipe.finalText, "\n">> IN
        IF activeView
        THEN /\ pipe.inserted = content
             /\ pipe.copied = <<>>
             /\ ~HasNotice(pipe, COPIED)
        ELSE /\ pipe.copied = <<pipe.finalText>>
             /\ pipe.inserted = <<>>
             /\ HasNotice(pipe, COPIED)

\* A saved recording transcribed with no note open: the transcript alone
\* is on the clipboard.
C18_Witness ==
    /\ Delivered
    /\ ~activeView
    /\ last.pipe.kind = "recording"
    /\ last.pipe.audioFileSaved
    /\ last.pipe.copied = <<"hello world">>
    /\ HasNotice(last.pipe, COPIED)

\* C19: for every invocation waiting at the template modal, the Skip
\* button and the card of the template "none" lead to the same end: no
\* formatting request, the same notices, the same content in the editor
\* or on the clipboard; and the invocation that has just returned from
\* either has delivered its raw transcript that way.
C19_SkipIsPassthrough ==
    LET none == CHOOSE t \in BUILT_IN_TEMPLATES : t.id = "none" IN
    /\ \A p \in PipeIds :
          pipes[p].pc = "template" =>
              LET skip == onTemplateSelected(pipes[p], NoTemplate)
                  card == onTemplateSelected(pipes[p], none) IN
              /\ skip.pc = "done" /\ card.pc = "done"
              /\ skip.fmt.requests = <<>> /\ card.fmt.requests = <<>>
              /\ skip.inserted = card.inserted
              /\ skip.copied = card.copied
              /\ skip.notices = card.notices
              /\ skip.finalText = card.finalText
    /\ (Delivered /\ (last.pipe.choice = "skipped"
                        \/ last.pipe.selected.id = "none")) =>
          /\ last.pipe.fmt.requests = <<>>
          /\ last.pipe.finalText = last.pipe.tx.outcome.text
          /\ ~HasNotice(last.pipe, Notice("FORMATTING", 0))
          /\ ~HasNotice(last.pipe, Notice("FORMAT_COMPLETE", 0))
          /\ ~HasNotice(last.pipe, Notice("FORMAT_FAILED", 0))
          /\ \/ last.pipe.copied = <<last.pipe.tx.outcome.text>>
             \/ \E i \in DOMAIN last.pipe.inserted :
                   last.pipe.inserted[i] = last.pipe.tx.outcome.text

\* The Skip button clicked on a saved recording with a note open.
C19_Witness ==
    /\ Delivered
    /\ last.pipe.choice = "skipped"
    /\ last.pipe.audioFileSaved
    /\ last.pipe.inserted # <<>>
    /\ last.pipe.fmt.requests = <<>>

\* C20: an invocation that sent a formatting request which failed (a
\* status other than 200, a network error, or a body without
\* choices[0].message.content) has delivered the raw transcript, has shown
\* the formatting-failed notice and not the formatting-complete one; an
\* upload with an active view has inserted the filename label followed by
\* the raw transcript.
C20_FormatFailureDeliversRaw ==
    LET pipe == last.pipe
        failed == \/ pipe.fmt.rejected
                  \/ pipe.fmt.response.status # 200
                  \/ ~pipe.fmt.response.json
                  \/ ContentPath \notin pipe.fmt.response.paths IN
    (Delivered /\ pipe.fmt.requests # <<>> /\ failed) =>
        /\ pipe.finalText = pipe.tx.outcome.text
        /\ HasNotice(pipe, Notice("FORMAT_FAILED", 0))
        /\ ~HasNotice(pipe, Notice("FORMAT_COMPLETE", 0))
        /\ (pipe.kind = "upload" /\ activeView) =>
              pipe.inserted = <<"**File: ", pipe.fileName, "**", "\n\n",
                                pipe.tx.outcome.text, "\n">>

(***************************************************************************)
(* Properties of the upload path (under Spec)                              *)
(***************************************************************************)
\* C21: an upload invocation is never in the save step and never marked as
\* saved; what it inserted starts with the label of its file name and has
\* no embed; and every step that changes the vault is the createFolder or
\* createBinary step of a recording invocation.
C21_UploadNeverSaves ==
    /\ [](/\ \A p \in PipeIds :
                pipes[p].kind = "upload" =>
                    /\ pipes[p].pc \notin {"stopping", "resolved", "readBlob",
                                           "createFolder", "createBinary"}
                    /\ pipes[p].filePath = <<>>
                    /\ ~pipes[p].audioFileSaved
          /\ (last.kind = "pipe" /\ last.pipe.kind = "upload") =>
                /\ last.pipe.filePath = <<>>
                /\ ~HasEmbed(last.pipe)
                /\ last.pipe.inserted # <<>> =>
                      SubSeq(last.pipe.inserted, 1, 3) =
                          <<"**File: ", last.pipe.fileName, "**">>)
    /\ [][vault' # vault =>
             \E p \in PipeIds :
                 /\ pipes[p].kind = "recording"
                 /\ pipes[p].pc \in {"createFolder", "createBinary"}
                 /\ pipes'[p].pc # pipes[p].pc]_vars

\* An upload transcribed and inserted while saving is enabled: the note has
\* the label, the vault is empty.
C21_Witness ==
    /\ last.kind = "pipe"
    /\ last.pipe.kind = "upload"
    /\ settings.saveAudioFiles
    /\ last.pipe.inserted = <<"**File: ", "interview.mp3", "**", "\n\n",
                              last.pipe.finalText, "\n">>
    /\ vault = [folders |-> {}, files |-> {}]

\* The invocations whose fields are all at hand: those in progress and the
\* one that has just returned.
Live ==
    { pipes[p] : p \in { q \in PipeIds : pipes[q].pc # "done" } }
    \cup { pipe \in {last.pipe} : last.kind = "pipe" }

\* C22: the file part of every transcription request of an upload carries
\* the name of the uploaded file and the MIME type of its extension
\* (audio/mpeg for .mp3); that of a recording carries recording.webm and
\* audio/webm.
C22_FilePartNameAndType ==
    \A pipe \in Live :
        \A i \in DOMAIN pipe.tx.requests :
            LET file == pipe.tx.requests[i].parts[1] IN
            /\ file.name = "file"
            /\ pipe.kind = "upload" =>
                  /\ file.value = pipe.fileName
                  /\ file.contentType = "audio/mpeg"
            /\ pipe.kind = "recording" =>
                  /\ file.value = RECORDING_NAME
                  /\ file.contentType = AUDIO_MIME_TYPE

(***************************************************************************)
(* Properties of TranscriptionService.testApiKey (under SpecTest)          *)
(***************************************************************************)
\* What a testApiKey call that sent its request has to look like: one GET
\* to the models endpoint of its provider, and once it has returned, the
\* result that belongs to the answer.
ProbeClassified(call) ==
    /\ Len(call.requests) = 1
    /\ call.requests[1].method = "GET"
    /\ call.requests[1].url = API_TEST_ENDPOINTS[call.provider]
    /\ call.pc \in {"requesting", "done"}
    /\ call.pc = "done" =>
          /\ call.answer = "200" <=> call.result = ApiTestResult(TRUE, "API_KEY_VALID")
          /\ call.answer = "401" <=> call.result = ApiTestResult(FALSE, "INVALID_KEY")
          /\ call.answer = "429" <=> call.result = ApiTestResult(FALSE, "QUOTA_EXCEEDED")
          /\ call.answer = "network" <=>
                call.result = ApiTestResult(FALSE, "NETWORK_ERROR")
          /\ call.answer \notin {"200", "401", "429", "network"} <=>
                call.result = ApiTestResult(FALSE, "UNKNOWN_ERROR")

\* A step of testApiKey leaves the transcribe and format calls, the
\* settings, the recorder, the pipelines and the vault as they were.
ProbeFrame ==
    [][probes' # probes => UNCHANGED <<tcall, fcall, pluginVars>>]_vars

\* C24 as stated: every testApiKey call with a non-empty key has sent one
\* GET to the models endpoint and is classified by its answer, and no step
\* of it touches anything else.
C24_ProbeOfNonEmptyKey ==
    /\ [](\A i \in DOMAIN probes :
             probes[i].apiKey # <<>> => ProbeClassified(probes[i]))
    /\ ProbeFrame

\* C24: every testApiKey call whose key is not empty after trimming has
\* sent one GET to the models endpoint of its provider and maps 200 to
\* success, 401 to invalid key, 429 to quota, any other status to unknown
\* and a network error to network error; it always returns a result, and
\* no step of it touches the transcribe call, the settings or the session.
C24_ProbeClassification ==
    /\ [](\A i \in DOMAIN probes :
             /\ trim(probes[i].apiKey) # <<>> => ProbeClassified(probes[i])
             /\ probes[i].pc = "done" => probes[i].result.message # "")
    /\ ProbeFrame

\* A call with a padded key answered 401, beside a transcribe call that has
\* sent its request.
C24_Witness ==
    /\ tcall.requests # <<>>
    /\ \E i \in DOMAIN probes :
          /\ probes[i].apiKey = <<" ">> \o ValidOpenAIKey \o <<" ">>
          /\ probes[i].answer = "401"
          /\ probes[i].result = ApiTestResult(FALSE, "INVALID_KEY")

\* C25: a testApiKey call with an empty or whitespace-only key has returned
\* at once with the invalid-key failure and has sent no request.
C25_EmptyKeyShortCircuits ==
    \A i \in DOMAIN probes :
       trim(probes[i].apiKey) = <<>> =>
          /\ probes[i].pc = "done"
          /\ probes[i].result = ApiTestResult(FALSE, "INVALID_KEY")
          /\ probes[i].requests = <<>>
          /\ probes[i].answer = ""

\* An empty key and a blank key have both been tested.
C25_Witness ==
    /\ Len(probes) = 2
    /\ probes[1].apiKey = <<>>
    /\ probes[2].apiKey = <<" ">>
    /\ probes[2].pc = "done"

C27_SameCredential ==
    \A i \in DOMAIN probes :
       ( /\ probes[i].apiKey = tcall.apiKey
         /\ probes[i].provider = tcall.provider
         /\ probes[i].requests # <<>>
         /\ tcall.requests # <<>> )
       => probes[i].requests[1].bearer = tcall.requests[1].bearer

(***************************************************************************)
(* Properties of the plugin under a fair event loop (SpecFair)             *)
(***************************************************************************)
\* A step in which the pipeline failed: a start or a stop that was
\* rejected, a save that failed, a transcribe call that threw, a formatting
\* that did not succeed.
Failed ==
    \/ last.kind = "start" /\ last.outcome # "started"
    \/ last.kind = "stop"
    \/ \E pipe \in Live : HasNotice(pipe, SAVE_FAILED) \/ pipe.folderFailed
    \/ last.kind = "pipe" /\ last.pipe.tx.outcome.kind = "error"
    \/ last.kind = "pipe" /\ HasNotice(last.pipe, Notice("FORMAT_FAILED", 0))

\* C28: after any failure of capture, save, transcription or formatting
\* the status bar eventually shows Idle again (or the recording of a
\* session that is open), without the user doing anything.
C28_FailureReturnsToIdle ==
    [](Failed => <>(statusBar = "Mic: Idle" \/ isRecording))

(***************************************************************************)
(* Properties of the catch blocks around transcribe (under Spec)           *)
(***************************************************************************)
\* The response that settled the transcribe call of pipe had this status.
FailedWith(pipe, status) ==
    pipe.tx.first = "response" /\ pipe.tx.response.status = status

GenericFailure ==
    { Notice("Transcription failed. Audio saved locally.", 0),
      Notice("Transcription failed. Please try again.", 0) }

\* The notices the catch block of stopRecording or transcribeFile showed.
CatchNotices(pipe) ==
    { pipe.notices[i] : i \in DOMAIN pipe.notices } \ {SAVE_FAILED}

\* C29: an invocation whose transcribe call threw shows one notice of its
\* own: for a 401 the unauthorized message for 5000 ms, for a 429 the quota
\* message for 5000 ms, and for a timeout, a missing or malformed key,
\* another status or a network error the generic failure message with the
\* default duration.
C29_NoticeByErrorKind ==
    (last.kind = "pipe" /\ last.pipe.tx.outcome.kind = "error") =>
       LET pipe == last.pipe IN
       /\ FailedWith(pipe, 401) =>
             CatchNotices(pipe) = {Notice("API_UNAUTHORIZED", LONG_DURATION)}
       /\ FailedWith(pipe, 429) =>
             CatchNotices(pipe) = {Notice("API_QUOTA_EXCEEDED", LONG_DURATION)}
       /\ (~FailedWith(pipe, 401) /\ ~FailedWith(pipe, 429)) =>
             /\ Cardinality(CatchNotices(pipe)) = 1
             /\ CatchNotices(pipe) \subseteq GenericFailure

\* A transcribe call answered 429 has just been caught.
C29_Witness ==
    /\ last.kind = "pipe"
    /\ FailedWith(last.pipe, 429)
    /\ HasNotice(last.pipe, Notice("API_QUOTA_EXCEEDED", LONG_DURATION))

\* C30: a step in which recorder.startRecording, recorder.stopRecording or
\* transcribe failed has shown at least one notice for that failure.
C30_ErrorsAreSurfaced ==
    /\ (last.kind = "start" /\ last.outcome # "started") => last.notices # <<>>
    /\ last.kind = "stop" => last.notices # <<>>
    /\ (last.kind = "pipe" /\ last.pipe.tx.outcome.kind = "error") =>
          /\ last.pipe.tx.notices # <<>>
          /\ CatchNotices(last.pipe) # {}

(***************************************************************************)
(* Properties of the requests of the pipelines (under Spec)                *)
(***************************************************************************)
\* Every invocation of stopRecording or transcribeFile: those in progress,
\* those that returned, and the one that has just returned in full.
Invocations ==
    { pipes[p] : p \in PipeIds } \cup { pipe \in {last.pipe} : last.kind = "pipe" }

\* C31: no invocation of stopRecording or transcribeFile has issued more
\* than one transcription request, and none has issued more than one chat
\* request for its template selection, whatever became of the request.
C31_NoRetry ==
    \A pipe \in Invocations :
       /\ Len(pipe.tx.requests) <= 1
       /\ Len(pipe.fmt.requests) <= 1

\* An invocation has returned whose one transcription request was answered
\* and whose one chat request was answered with an error status.
C31_Witness ==
    /\ last.kind = "pipe"
    /\ last.pipe.fmt.response.status = 500
    /\ Len(last.pipe.fmt.requests) = 1
    /\ Len(last.pipe.tx.requests) = 1

\* The step is a late event of the race of invocation p: the response
\* arrives, or the timer fires, after its transcribe call has settled.
LateEvent(p) ==
    /\ pipes[p].tx.pc = "done"
    /\ \/ pipes'[p].tx.responded # pipes[p].tx.responded
       \/ pipes'[p].tx.timerFired # pipes[p].tx.timerFired

\* C32: a response that arrives, or a timer that fires, after the
\* transcribe call of an invocation has settled changes nothing but the
\* record that it happened: the outcome and the notices of the call, the
\* invocation, every other invocation, the status bar, the recorder, the
\* vault and the settings stay as they were, and no handler reports
\* anything.
C32_LateEventHasNoEffect ==
    [][\A p \in PipeIds :
         LateEvent(p) =>
            /\ pipes'[p].tx.outcome = pipes[p].tx.outcome
            /\ pipes'[p].tx.notices = pipes[p].tx.notices
            /\ pipes'[p].tx.requests = pipes[p].tx.requests
            /\ pipes'[p].tx.first = pipes[p].tx.first
            /\ pipes'[p].tx.pc = "done"
            /\ [pipes'[p] EXCEPT !.tx = pipes[p].tx] = pipes[p]
            /\ \A q \in PipeIds \ {p} : pipes'[q] = pipes[q]
            /\ Len(pipes') = Len(pipes)
            /\ last' = NoLast
            /\ UNCHANGED <<svcVars, settings, dataJson, recVars, uiVars, activeView,
                           vault>>]_vars

\* The response of the first invocation, a 401, came after its timeout was
\* reported, and the timer of the second fired after its response had won,
\* while its template selection modal is open.
C32_Witness ==
    /\ Len(pipes) = 2
    /\ pipes[1].pc = "done"
    /\ pipes[1].tx.timerFired
    /\ pipes[1].tx.late.status = 401
    /\ pipes[2].pc = "template"
    /\ pipes[2].tx.first = "response"
    /\ pipes[2].tx.timerFired

(***************************************************************************)
(* Properties of the settings (under SpecSettings)                         *)
(***************************************************************************)
\* C33: the settings in memory are always the defaults overlaid with the
\* data on disk: at startup each field has the persisted value if there
\* is one and the default otherwise, and every handler that changes a
\* field (provider, the two keys, language, diarization, the audio-save
\* toggle and folder, Quick Options) has written the whole settings object
\* when it ends.
C33_SettingsPersisted ==
    /\ [](settings = loadSettings(dataJson))
    /\ [][settings' # settings => dataJson' = settings']_vars

\* The handlers have changed the diarization flag, the audio-save toggle
\* and the folder and have written them, while an upload is being
\* transcribed.
C33_Witness ==
    /\ dataJson = settings
    /\ settings.language = "auto"
    /\ settings.serviceProvider = "openai"
    /\ settings.enableSpeakerDiarization
    /\ settings.groqApiKey = <<>>
    /\ settings.openaiApiKey = ValidOpenAIKey
    /\ settings.saveAudioFiles
    /\ settings.audioSaveFolder = Folder
    /\ \E p \in PipeIds : pipes[p].pc = "racing"

(***************************************************************************)
(* Properties of the diarization flag (under SpecDiarization)              *)
(***************************************************************************)
\* The settings with the diarization flag erased.
NonFlag(s) == [s EXCEPT !.enableSpeakerDiarization = FALSE]

\* The requests and the text that follow from settings s, the file, the
\* view and the answers of the endpoints.
TranscriptionRequestOf(s) ==
    [kind |-> "transcribe", url |-> API_ENDPOINTS[s.serviceProvider],
     method |-> "POST", bearer |-> apiKeyOf(s),
     parts |-> << [name |-> "file", value |-> RECORDING_NAME,
                   contentType |-> AUDIO_MIME_TYPE],
                  [name |-> "model", value |-> MODELS[s.serviceProvider],
                   contentType |-> ""] >>
               \o (IF s.language # "auto"
                   THEN << [name |-> "language", value |-> s.language,
                            contentType |-> ""] >>
                   ELSE << >>)]

ChatRequestOf(s, pipe) ==
    [kind |-> "format", url |-> CHAT_ENDPOINTS[s.serviceProvider],
     method |-> "POST", bearer |-> apiKeyOf(s),
     model |-> CHAT_MODELS[s.serviceProvider],
     prompt |-> <<pipe.selected.prompt, "\n\n", pipe.tx.response.text>>]

TestRequestsOf(s, serviceProvider) ==
    LET apiKey == IF serviceProvider = "openai" THEN s.openaiApiKey
                  ELSE s.groqApiKey IN
    IF trim(apiKey) = <<>> THEN <<>>
    ELSE << [kind |-> "test", url |-> API_TEST_ENDPOINTS[serviceProvider],
             method |-> "GET", bearer |-> trim(apiKey)] >>

FinalTextOf(pipe) ==
    IF pipe.fmt.requests # <<>> /\ callChatAPI(pipe.fmt.response).kind = "returned"
    THEN callChatAPI(pipe.fmt.response).text
    ELSE pipe.tx.response.text

InsertedOf(pipe) ==
    IF ~activeView THEN <<>>
    ELSE IF pipe.tx.outcome.kind = "ok" /\ pipe.choice \in {"selected", "skipped"}
    THEN IF pipe.kind = "upload"
         THEN <<"**File: ", pipe.fileName, "**", "\n\n", FinalTextOf(pipe), "\n">>
         ELSE IF pipe.audioFileSaved
         THEN Embed(pipe.filePath) \o <<"\n\n", FinalTextOf(pipe), "\n">>
         ELSE <<FinalTextOf(pipe), "\n">>
    ELSE IF pipe.tx.outcome.kind = "error" /\ pipe.audioFileSaved
    THEN Embed(pipe.filePath) \o <<"\n">>
    ELSE <<>>

\* C34: with every other setting fixed, each transcription, chat and
\* key-test request and each inserted text is what follows from the
\* settings with the diarization flag erased, the file, the view and the
\* answers of the endpoints, whatever the flag was when the request was
\* built; and a step that changes the flag touches no invocation, no key
\* test and no file.
C34_DiarizationIsInert ==
    /\ [](LET s == NonFlag(settings) IN
          /\ \A pipe \in Live :
                /\ \A i \in DOMAIN pipe.tx.requests :
                      pipe.tx.requests[i] = TranscriptionRequestOf(s)
                /\ \A i \in DOMAIN pipe.fmt.requests :
                      pipe.fmt.requests[i] = ChatRequestOf(s, pipe)
          /\ \A i \in DOMAIN probes :
                probes[i].requests = TestRequestsOf(s, probes[i].provider)
          /\ last.kind = "pipe" => last.pipe.inserted = InsertedOf(last.pipe))
    /\ [][settings'.enableSpeakerDiarization # settings.enableSpeakerDiarization
            => UNCHANGED <<pipes, probes, vault, recVars, uiVars>>]_vars

\* With the flag set, a recording was saved, transcribed in Korean by Groq
\* and formatted, its text was inserted, and the key was tested.
C34_Witness ==
    /\ settings.enableSpeakerDiarization
    /\ last.kind = "pipe"
    /\ last.pipe.kind = "recording"
    /\ last.pipe.audioFileSaved
    /\ last.pipe.fmt.requests # <<>>
    /\ last.pipe.inserted # <<>>
    /\ Len(last.pipe.tx.requests[1].parts) = 3
    /\ Len(probes) = 1
    /\ probes[1].requests # <<>>

(***************************************************************************)
(* Properties of MicrophoneRecorder.startRecording (under Spec)            *)
(***************************************************************************)
\* C35: a startRecording call whose getUserMedia was rejected fails with
\* permission_denied for NotAllowedError and PermissionDeniedError, with
\* not_found for NotFoundError and DevicesNotFoundError and with general
\* for every other error, and with nothing else; it creates no recorder
\* and does not report a started recording.
C35_CaptureErrorMapping ==
    [][(last'.kind = "start" /\ last'.outcome \in AcquisitionErrors) =>
          /\ last'.notices =
                << Notice(IF last'.outcome \in {"NotAllowedError",
                                                "PermissionDeniedError"}
                          THEN "permission_denied"
                          ELSE IF last'.outcome \in {"NotFoundError",
                                                     "DevicesNotFoundError"}
                          THEN "not_found"
                          ELSE "general", 0) >>
          /\ UNCHANGED <<mediaRecorder, recorders, streams, audioChunks>>
          /\ isRecording' = isRecording]_vars

\* getUserMedia was rejected under the legacy name of the permission error.
C35_Witness ==
    /\ last.kind = "start"
    /\ last.outcome = "PermissionDeniedError"
    /\ last.notices = <<Notice("permission_denied", 0)>>

(***************************************************************************)
(* Properties of the status bar (under Spec)                               *)
(***************************************************************************)
\* C36: whenever the recorder is recording, the status bar shows
\* "Recording..." and the ribbon icon carries the recording class, also
\* when an earlier invocation or an upload ends meanwhile.
C36_RecordingIsShown ==
    isRecording =>
        /\ statusBar = "Mic: Recording..."
        /\ ribbonRecording

(***************************************************************************)
(* Properties of the key shape check (under SpecTranscribe)                *)
(***************************************************************************)
\* C37: a call with a non-empty key passes the shape check exactly when
\* the trimmed key is longer than 20 characters and, for openai, starts
\* with "sk-", for groq, has no whitespace in it (whatever its prefix);
\* every other key is rejected with Invalid API key format.
C37_KeyShapeRule ==
    LET t == trim(tcall.apiKey)
        inShape ==
            /\ Len(t) > 20
            /\ tcall.provider = "openai" => startsWith(t, <<"s", "k", "-">>)
            /\ tcall.provider = "groq" => ~hasWhitespace(t)
    IN (tcall.pc # "idle" /\ tcall.apiKey # <<>>) =>
          /\ inShape => tcall.outcome.message # "Invalid API key format"
          /\ ~inShape =>
                /\ tcall.outcome = Failure("Invalid API key format", 0)
                /\ tcall.notices = <<"API_KEY_INVALID_FORMAT">>

\* A groq call whose padded key of 21 letters, without the prefix gsk_,
\* was accepted and sent.
C37_Witness ==
    /\ tcall.provider = "groq"
    /\ tcall.apiKey = <<" ">> \o Rep("a", 21) \o <<" ">>
    /\ tcall.requests # <<>>

(***************************************************************************)
(* Properties of the key sent (under SpecSettings)                         *)
(***************************************************************************)
\* The key the settings s hold for a provider.
KeyStoredFor(s, provider) ==
    IF provider = "openai" THEN s.openaiApiKey ELSE s.groqApiKey

\* Invocation p after the step: in full also if it has just returned.
After(p) == IF pipes'[p].pc = "done" THEN last'.pipe ELSE pipes'[p]

\* C38: every transcription request and every chat request goes to the
\* endpoint and names the model of the provider its call was made for and
\* carries the key of that call, and every call is made for the provider
\* chosen at that moment with the key stored for that provider at that
\* moment, also when provider and keys are changed between the
\* transcription and the template selection of one invocation.
C38_KeyMatchesProvider ==
    /\ [](\A pipe \in Live :
             /\ \A i \in DOMAIN pipe.tx.requests :
                   /\ pipe.tx.requests[i].url = API_ENDPOINTS[pipe.tx.provider]
                   /\ pipe.tx.requests[i].parts[2].value = MODELS[pipe.tx.provider]
                   /\ pipe.tx.requests[i].bearer = pipe.tx.apiKey
             /\ \A i \in DOMAIN pipe.fmt.requests :
                   /\ pipe.fmt.requests[i].url = CHAT_ENDPOINTS[pipe.fmt.provider]
                   /\ pipe.fmt.requests[i].model = CHAT_MODELS[pipe.fmt.provider]
                   /\ pipe.fmt.requests[i].bearer = pipe.fmt.apiKey)
    /\ [][\A p \in PipeIds :
            /\ (pipes[p].tx.pc = "idle" /\ After(p).tx.pc # "idle") =>
                  /\ After(p).tx.provider = settings.serviceProvider
                  /\ After(p).tx.apiKey =
                        KeyStoredFor(settings, settings.serviceProvider)
            /\ (pipes[p].pc = "template" /\ After(p).fmt.pc # "idle") =>
                  /\ After(p).fmt.provider = settings.serviceProvider
                  /\ After(p).fmt.apiKey =
                        KeyStoredFor(settings, settings.serviceProvider)]_vars

\* An upload transcribed by OpenAI with the OpenAI key is being formatted
\* by Groq with the Groq key: the provider was changed in between.
C38_Witness ==
    \E p \in PipeIds :
       /\ pipes[p].pc = "formatting"
       /\ pipes[p].tx.requests[1].url = API_ENDPOINTS["openai"]
       /\ pipes[p].tx.requests[1].bearer = ValidOpenAIKey
       /\ pipes[p].fmt.requests[1].url = CHAT_ENDPOINTS["groq"]
       /\ pipes[p].fmt.requests[1].bearer = ValidGroqKey

(***************************************************************************)
(* Overlapping invocations (under Spec)                                    *)
(***************************************************************************)
\* Invocation p as it stands: in full also if it has just returned.
At(p) == IF last.kind = "pipe" /\ last.id = p THEN last.pipe ELSE pipes[p]

Elems(seq) == { seq[i] : i \in DOMAIN seq }

\* The transcript the endpoint returns to invocation p and the name of the
\* file a recording invocation p writes.
OwnTranscript(p) == (CHOOSE r \in PipeResponses(p) : r.status = 200).text
OwnFileName(p) == "recording-" \o ToString(p) \o ".webm"

\* The transcripts and file names of the other invocations.
Foreign(p) ==
    UNION { {OwnTranscript(q), OwnFileName(q)} : q \in (1..MaxPipes) \ {p} }

\* C39: whatever invocations overlap, the text an invocation inserts, the
\* text it copies and the prompt it sends for formatting hold no transcript
\* and no file name of another invocation; the result it works with is the
\* transcript returned to its own request, the text it delivers unformatted
\* is that transcript, and the embed it inserts names its own file.
C39_PipelineIsolation ==
    \A p \in PipeIds :
       LET pipe == At(p) IN
       /\ Elems(pipe.inserted) \cap Foreign(p) = {}
       /\ Elems(pipe.copied) \cap Foreign(p) = {}
       /\ \A i \in DOMAIN pipe.fmt.requests :
             /\ Elems(pipe.fmt.requests[i].prompt) \cap Foreign(p) = {}
             /\ OwnTranscript(p) \in Elems(pipe.fmt.requests[i].prompt)
       /\ pipe.tx.outcome.kind = "ok" => pipe.tx.outcome.text = OwnTranscript(p)
       /\ (pipe.pc = "done" /\ (\/ pipe.choice = "skipped"
                               \/ /\ pipe.choice = "selected"
                                  /\ ~pipe.fmt.result.success)) =>
             OwnTranscript(p) \in Elems(pipe.inserted) \cup Elems(pipe.copied)
       /\ HasEmbed(pipe) => OwnFileName(p) \in Elems(pipe.inserted)

\* The first recording has inserted the embed of its file and its
\* transcript while a second invocation, transcribed already, waits for
\* its template to be chosen.
C39_Witness ==
    /\ last.kind = "pipe" /\ last.id = 1
    /\ last.pipe.kind = "recording"
    /\ HasEmbed(last.pipe)
    /\ OwnTranscript(1) \in Elems(last.pipe.inserted)
    /\ Len(pipes) >= 2
    /\ pipes[2].pc = "template"
    /\ pipes[2].tx.outcome.text = OwnTranscript(2)

(***************************************************************************)
(* The generic failure notice of a recording (under Spec)                  *)
(***************************************************************************)
AUDIO_SAVED_LOCALLY == Notice("Transcription failed. Audio saved locally.", 0)

\* C40: a recording invocation that has shown "Transcription failed. Audio
\* saved locally." had audio saving enabled and its write succeeded: it is
\* marked as saved and its file is in the vault.
C40_SavedWhenSaidSo ==
    \A pipe \in Live :
        HasNotice(pipe, AUDIO_SAVED_LOCALLY) =>
            /\ pipe.audioFileSaved
            /\ pipe.filePath \in vault.files

=============================================================================
